---- MODULE Spec2Model ----
(***************************************************************************)
(* Verification / canonicalization / deduplication pipeline of the        *)
(* language-learning backend (backend/app/services).                       *)
(*                                                                         *)
(* Strings are sequences of one-character strings, so that containment,   *)
(* case folding, trimming and the similarity ratio are computed the way   *)
(* the Python code computes them.                                          *)
(***************************************************************************)
EXTENDS Integers, Sequences, FiniteSets, TLC

(***************************************************************************)
(* Python string primitives                                                *)
(***************************************************************************)

\* str.lower() on one character (the letters the model's vocabulary uses)
LowerChar(c) ==
    CASE c = "A" -> "a" [] c = "B" -> "b" [] c = "C" -> "c" [] c = "D" -> "d"
      [] c = "H" -> "h" [] c = "K" -> "k" [] c = "Z" -> "z"
      [] OTHER -> c

\* str.lower()
Lower(s) == [i \in 1..Len(s) |-> LowerChar(s[i])]

\* the characters str.strip() removes
Whitespace == {" ", "\t", "\n"}

\* `not s or not s.strip()`: empty, or nothing but whitespace
IsBlank(s) == \A i \in 1..Len(s) : s[i] \in Whitespace

\* Python's `sub in s` on strings
IsSubstr(sub, s) ==
    \E i \in 0..(Len(s) - Len(sub)) : SubSeq(s, i + 1, i + Len(sub)) = sub

(***************************************************************************)
(* TextVerifier                                                            *)
(***************************************************************************)

\* mutant of VerifySurfaceForm: the context strings are not looked at
SurfaceFormOnly(source_text, sentences, surface_form, sentence_idx, left_context, right_context) ==
    LET n == Len(sentences)
    IN  IF sentence_idx >= n THEN "false"
        ELSE IF sentence_idx < -n THEN "raise"
        ELSE IF IsSubstr(Lower(surface_form),
                         Lower(sentences[IF sentence_idx >= 0 THEN sentence_idx + 1
                                         ELSE n + sentence_idx + 1]))
                \/ IsSubstr(Lower(surface_form), Lower(source_text))
        THEN "true"
        ELSE "false"

\* TextVerifier.verify_surface_form over the verifier's case-folded source
\* text and sentences: "true", "false", or "raise" (IndexError: Python reads
\* sentences[idx] for a negative idx from the end of the list, and raises when
\* idx < -len(sentences)).
VerifySurfaceForm(source_text, sentences, surface_form, sentence_idx, left_context, right_context) ==
    LET n       == Len(sentences)
        src     == Lower(source_text)
        surface == Lower(surface_form)
        pattern == Lower(left_context) \o surface \o Lower(right_context)
    IN  IF sentence_idx >= n THEN "false"
        ELSE IF sentence_idx < -n THEN "raise"
        ELSE LET pos      == IF sentence_idx >= 0 THEN sentence_idx + 1
                             ELSE n + sentence_idx + 1
                 sentence == Lower(sentences[pos])
             IN  IF ~IsSubstr(surface, sentence) /\ ~IsSubstr(surface, src)
                 THEN "false"
                 ELSE IF (left_context # <<>> \/ right_context # <<>>)
                         /\ ~IsSubstr(pattern, sentence) /\ ~IsSubstr(pattern, src)
                 THEN "false"
                 ELSE "true"

(***************************************************************************)
(* difflib.SequenceMatcher(None, a, b).ratio(), as _string_similarity uses *)
(* it.  Positions are 0-based and ranges half open, as in difflib.         *)
(***************************************************************************)

\* the smallest and the largest of a non-empty set of numbers
MinOf(S) == CHOOSE x \in S : \A y \in S : x <= y
MaxOf(S) == CHOOSE x \in S : \A y \in S : x >= y

\* length of the common run of a[i:ahi] and b[j:bhi] that starts at i and j
MatchLen(a, b, i, j, ahi, bhi) ==
    IF i < ahi /\ j < bhi /\ a[i + 1] = b[j + 1]
    THEN Cardinality({k \in 1..MinOf({ahi - i, bhi - j}) :
                         \A m \in 0..(k - 1) : a[i + m + 1] = b[j + m + 1]})
    ELSE 0

\* the size of the longest block of a[alo:ahi] and b[blo:bhi]
BestSize(a, b, alo, ahi, blo, bhi) ==
    MaxOf({0} \cup {MatchLen(a, b, i, j, ahi, bhi) :
                       i \in alo..(ahi - 1), j \in blo..(bhi - 1)})

\* of the blocks of that size, where the one earliest in a starts in a
FirstInA(a, b, alo, ahi, blo, bhi, size) ==
    MinOf({i \in alo..(ahi - 1) :
              \E j \in blo..(bhi - 1) : MatchLen(a, b, i, j, ahi, bhi) = size})

\* of the blocks of that size that start at i in a, where the one earliest in
\* b starts in b
FirstInB(a, b, i, ahi, blo, bhi, size) ==
    MinOf({j \in blo..(bhi - 1) : MatchLen(a, b, i, j, ahi, bhi) = size})

BlockAt(a, b, i, ahi, blo, bhi, size) ==
    <<i, FirstInB(a, b, i, ahi, blo, bhi, size), size>>

\* find_longest_match's result when nothing matches is (alo, blo, 0)
BlockOfSize(a, b, alo, ahi, blo, bhi, size) ==
    IF size = 0 THEN <<alo, blo, 0>>
    ELSE BlockAt(a, b, FirstInA(a, b, alo, ahi, blo, bhi, size), ahi, blo, bhi, size)

\* SequenceMatcher.find_longest_match without junk: the longest block, of
\* those the one starting earliest in a, of those the one earliest in b
FindLongestMatch(a, b, alo, ahi, blo, bhi) ==
    BlockOfSize(a, b, alo, ahi, blo, bhi, BestSize(a, b, alo, ahi, blo, bhi))

RECURSIVE MatchedChars(_, _, _, _, _, _)
RECURSIVE MatchedAround(_, _, _, _, _, _, _)
\* the block m, then the matching blocks to its left and to its right
MatchedAround(a, b, alo, ahi, blo, bhi, m) ==
    IF m[3] = 0 THEN 0
    ELSE m[3]
         + MatchedChars(a, b, alo, m[1], blo, m[2])
         + MatchedChars(a, b, m[1] + m[3], ahi, m[2] + m[3], bhi)

\* the total size of SequenceMatcher.get_matching_blocks()
MatchedChars(a, b, alo, ahi, blo, bhi) ==
    MatchedAround(a, b, alo, ahi, blo, bhi,
                  FindLongestMatch(a, b, alo, ahi, blo, bhi))

\* numerator and denominator of SemanticDeduplicator._string_similarity:
\* ratio = 2.0 * matches / (len(a) + len(b)), and 1.0 for two empty strings
SimilarityNum(s1, s2) ==
    IF Len(s1) + Len(s2) = 0 THEN 1
    ELSE 2 * MatchedChars(Lower(s1), Lower(s2), 0, Len(s1), 0, Len(s2))

SimilarityDen(s1, s2) ==
    IF Len(s1) + Len(s2) = 0 THEN 1 ELSE Len(s1) + Len(s2)

\* similarity_threshold = 0.85, as the fraction ThresholdNum / ThresholdDen
ThresholdNum == 85
ThresholdDen == 100

\* mutant of MeetsThreshold: a strict comparison
MeetsThresholdStrict(s1, s2) ==
    SimilarityNum(s1, s2) * ThresholdDen > ThresholdNum * SimilarityDen(s1, s2)

\* `similarity >= self.threshold`. The float quotient 2.0*m/t is the double
\* nearest to the rational, and so is the literal 0.85, so the comparison of
\* floats agrees with the comparison of the fractions for these lengths.
MeetsThreshold(s1, s2) ==
    SimilarityNum(s1, s2) * ThresholdDen >= ThresholdNum * SimilarityDen(s1, s2)

(***************************************************************************)
(* Values of a JSON document returned by generate_json: a string, or a     *)
(* value that is no string: falsy (null, 0, [], {}) or truthy (5, true).   *)
(***************************************************************************)
JStr(s)  == [t |-> "str", s |-> s]
JFalsy   == [t |-> "falsy", s |-> <<>>]
JTruthy  == [t |-> "truthy", s |-> <<>>]

\* a document that is a JSON object: keys and their values
DictDoc(keys, val) == [kind |-> "dict", keys |-> keys, val |-> val]
\* a document that is a JSON array holding the strings `keys`
ListDoc(keys) == [kind |-> "list", keys |-> keys, val |-> [k \in {} |-> JFalsy]]
\* a document that is a number, true, false or null
ScalarDoc == [kind |-> "scalar", keys |-> {}, val |-> [k \in {} |-> JFalsy]]
\* `canonical_map = {}` when batch canonicalization is off
EmptyDoc == DictDoc({}, [k \in {} |-> JFalsy])

RECURSIVE LStrip(_)
\* str.lstrip()
LStrip(s) == IF s # <<>> /\ Head(s) \in Whitespace THEN LStrip(Tail(s)) ELSE s

RECURSIVE RStrip(_)
\* str.rstrip()
RStrip(s) ==
    IF s # <<>> /\ s[Len(s)] \in Whitespace
    THEN RStrip(SubSeq(s, 1, Len(s) - 1)) ELSE s

\* str.strip()
Strip(s) == RStrip(LStrip(s))

(***************************************************************************)
(* CanonicalFormComputer                                                   *)
(***************************************************************************)

\* Outcomes of the generate_json call of _llm_lemmatize: it raised
\* ("error"), or returned a document `doc`.
LemmaError == [kind |-> "error", doc |-> EmptyDoc]
LemmaDoc(d) == [kind |-> "doc", doc |-> d]

\* the key of the single-lemma document
LemmaKey == <<"l","e","m","m","a">>

\* CanonicalFormComputer._llm_lemmatize: every failure inside the try block
\* (the call raising, .get on a document that is no dict, .strip() on a value
\* that is no string) and an empty lemma give the surface form back
LlmLemmatize(surface, resp) ==
    IF resp.kind = "error" \/ resp.doc.kind # "dict" THEN surface
    ELSE IF LemmaKey \notin resp.doc.keys THEN surface
    ELSE LET v == resp.doc.val[LemmaKey]
         IN  IF v.t # "str" THEN surface
             ELSE IF Strip(v.s) = <<>> THEN surface
             ELSE Strip(v.s)

\* CanonicalFormComputer.compute_canonical
ComputeCanonical(surface_form, item_type, use_llm, resp) ==
    IF item_type = "pattern" THEN surface_form
    ELSE IF item_type = "chunk" THEN surface_form
    ELSE IF use_llm THEN LlmLemmatize(surface_form, resp)
    ELSE surface_form

\* the set of surface forms of a list of candidates
SurfaceForms(items) == {items[k].surface_form : k \in 1..Len(items)}

\* CanonicalFormComputer.batch_compute_canonical: the returned document is
\* handed back as it is; only a raised call falls back to surface -> surface
BatchComputeCanonical(items, resp) ==
    IF items = <<>> THEN EmptyDoc
    ELSE IF \A k \in 1..Len(items) : items[k].type # "word"
         THEN DictDoc(SurfaceForms(items),
                      [sf \in SurfaceForms(items) |-> JStr(sf)])
    ELSE IF resp.kind = "error"
         THEN DictDoc(SurfaceForms(items),
                      [sf \in SurfaceForms(items) |-> JStr(sf)])
    ELSE resp.doc

\* Step 2 of the loop of verify_and_canonicalize: the value bound to
\* canonical_form, or a raise.  `surface in canonical_map` raises TypeError on a
\* scalar document; canonical_map[surface] raises TypeError on a list.
ResolveCanonical(canonical_map, item, use_llm, resp) ==
    IF canonical_map.kind = "scalar" THEN [kind |-> "raise", v |-> JFalsy]
    ELSE IF item.surface_form \in canonical_map.keys
         THEN IF canonical_map.kind = "list" THEN [kind |-> "raise", v |-> JFalsy]
              ELSE [kind |-> "ok", v |-> canonical_map.val[item.surface_form]]
    ELSE [kind |-> "ok",
          v |-> JStr(ComputeCanonical(item.surface_form, item.type, use_llm, resp))]

\* whether step 2 awaits compute_canonical's generation call for this item
NeedsLemmaCall(canonical_map, item, use_llm) ==
    /\ canonical_map.kind # "scalar"
    /\ item.surface_form \notin canonical_map.keys
    /\ item.type \notin {"pattern", "chunk"}
    /\ use_llm

(***************************************************************************)
(* SemanticDeduplicator                                                    *)
(***************************************************************************)

\* .limit(100) of the fuzzy query
FuzzyWindow == 100

\* the ids of the items of one type, oldest first (ids grow with created_at)
IdsOfType(items_table, item_type) ==
    {k \in 1..Len(items_table) : items_table[k].type = item_type}

\* every item of the type, however old
AllOfType(items_table, item_type) == IdsOfType(items_table, item_type)

\* the FuzzyWindow most recently created items of the type
RecentOfType(items_table, item_type) ==
    LET ids == IdsOfType(items_table, item_type)
    IN  {k \in ids : Cardinality({m \in ids : m > k}) < FuzzyWindow}

NoItem == 0

\* the smallest and the largest of a non-empty set of ids
MinId(ids) == CHOOSE k \in ids : \A m \in ids : k <= m
MaxId(ids) == CHOOSE k \in ids : \A m \in ids : k >= m

\* the rows the exact query matches
ExactMatches(items_table, candidate_canonical, item_type) ==
    {k \in IdsOfType(items_table, item_type) :
        candidate_canonical.t = "str"
        /\ items_table[k].canonical_form = candidate_canonical.s}

\* the rows of the window that meet the threshold
FuzzyMatches(items_table, candidate_canonical, item_type) ==
    {k \in RecentOfType(items_table, item_type) :
        MeetsThreshold(candidate_canonical.s, items_table[k].canonical_form)}

\* the fuzzy step: the window is walked most recent first and the first item
\* that meets the threshold is returned.  s1.lower() raises AttributeError on
\* a candidate that is no string as soon as the window holds an item.
FuzzyStep(items_table, candidate_canonical, item_type) ==
    IF RecentOfType(items_table, item_type) = {}
    THEN [kind |-> "none", id |-> NoItem]
    ELSE IF candidate_canonical.t # "str" THEN [kind |-> "raise", id |-> NoItem]
    ELSE IF FuzzyMatches(items_table, candidate_canonical, item_type) = {}
         THEN [kind |-> "none", id |-> NoItem]
    ELSE [kind |-> "item",
          id |-> MaxId(FuzzyMatches(items_table, candidate_canonical, item_type))]

\* the fuzzy step alone
FuzzyOnly(items_table, candidate_canonical, item_type) ==
    FuzzyStep(items_table, candidate_canonical, item_type)

\* SemanticDeduplicator.find_similar_items: the exact match first, then the
\* fuzzy step.  A candidate that is no string matches no row exactly.
FindSimilarItems(items_table, candidate_canonical, item_type) ==
    IF ExactMatches(items_table, candidate_canonical, item_type) # {}
    THEN [kind |-> "item",
          id |-> MinId(ExactMatches(items_table, candidate_canonical, item_type))]
    ELSE FuzzyStep(items_table, candidate_canonical, item_type)

(***************************************************************************)
(* State                                                                   *)
(***************************************************************************)
VARIABLES
    cfg,                \* settings: batch_canonicalization, use_llm, enable_deduplication
    db,                 \* items table, in creation order: db[k].id = k
    edges_table,        \* edges table, in creation order
    encounters,         \* encounters table, in creation order
    pc,                 \* position of the call in progress
    mode,               \* "direct": verify_and_canonicalize called on its own;
                        \* "ingest": called by process_text
    source_text,        \* the text handed to the call
    extraction,         \* ExtractionOutput: sentences, items, edges
    canonical_map,      \* verify_and_canonicalize's canonical_map
    pos,                \* number of candidates the loop has gone through
    verified_items,     \* verify_and_canonicalize's verified_items
    verification_stats, \* verify_and_canonicalize's verification_stats
    item_id_map,        \* process_text's item_id_map
    stored_items,       \* process_text's stored_items
    stored_edges,       \* process_text's stored_edges
    edge_pos,           \* number of edges the edge loop of process_text has gone through
    history,            \* what the completed process_text calls were given and returned
    batched             \* the locals of the extract_items_batched call in progress

verifyVars == <<source_text, extraction, canonical_map, pos, verified_items,
                verification_stats>>
storeVars  == <<item_id_map, stored_items, stored_edges, edge_pos>>
vars == <<cfg, db, edges_table, encounters, pc, mode, verifyVars, storeVars,
          history, batched>>

(***************************************************************************)
(* extract_service: sentence groups and the batched extraction driver      *)
(***************************************************************************)

\* settings.batch_size_sentences
BatchSizeSentences == 2

Punctuation == {".", "!", "?"}
UpperLetters == {"A", "B", "C", "D", "H", "K", "Z"}

\* the pattern (?<![A-Z])(?<=[.!?])\s+ matches at position p (1-based, the
\* first character of the match): both lookbehinds look at the character
\* just before p
SplitPoint(t, p) ==
    /\ p >= 2
    /\ t[p] \in Whitespace
    /\ t[p - 1] \notin UpperLetters
    /\ t[p - 1] \in Punctuation

RECURSIVE SkipWhitespace(_, _)
\* the end of the greedy \s+ that starts at p: the first index after it
SkipWhitespace(t, p) ==
    IF p <= Len(t) /\ t[p] \in Whitespace THEN SkipWhitespace(t, p + 1) ELSE p

RECURSIVE SplitFrom(_, _, _)
\* re.split from `start`, the scan being at p
SplitFrom(t, start, p) ==
    IF p > Len(t) THEN << SubSeq(t, start, Len(t)) >>
    ELSE IF SplitPoint(t, p)
         THEN << SubSeq(t, start, p - 1) >>
                 \o SplitFrom(t, SkipWhitespace(t, p), SkipWhitespace(t, p))
    ELSE SplitFrom(t, start, p + 1)

\* [s for s in sentences if s.strip()]
NonBlankOnly(seq) == SelectSeq(seq, LAMBDA x : ~IsBlank(x))

RECURSIVE JoinWithSpace(_)
\* ' '.join(parts)
JoinWithSpace(parts) ==
    IF parts = <<>> THEN <<>>
    ELSE IF Len(parts) = 1 THEN parts[1]
    ELSE parts[1] \o <<" ">> \o JoinWithSpace(Tail(parts))

RECURSIVE GroupSentences(_, _)
\* the groups of batch_size sentences, in order
GroupSentences(sentences, batch_size) ==
    IF sentences = <<>> THEN <<>>
    ELSE IF Len(sentences) <= batch_size THEN << JoinWithSpace(sentences) >>
    ELSE << JoinWithSpace(SubSeq(sentences, 1, batch_size)) >>
            \o GroupSentences(SubSeq(sentences, batch_size + 1, Len(sentences)),
                              batch_size)

\* split_into_sentence_batches
SplitSentences(text) == NonBlankOnly(SplitFrom(Strip(text), 1, 1))
SplitIntoSentenceBatches(text, batch_size) ==
    IF SplitSentences(text) = <<>> THEN << text >>
    ELSE GroupSentences(SplitSentences(text), batch_size)

\* mutant of ErrorRaised: every failure is wrapped
WrapsAll(failure) == "ExtractionError"

\* lines 325-339: the exception extract_items raises when its try block fails
\* with `failure`: OllamaConnectionError and OllamaTimeoutError are re-raised
\* as they are, everything else is wrapped in ExtractionError
ErrorRaised(failure) ==
    IF failure \in {"OllamaConnectionError", "OllamaTimeoutError"} THEN failure
    ELSE "ExtractionError"

\* what extract_items gives its caller: it raised (failure: what went wrong
\* inside, error: the class of the exception raised), or an ExtractionOutput
RaisedAs(failure) ==
    [kind |-> "raise", failure |-> failure, error |-> ErrorRaised(failure),
     sentences |-> <<>>, items |-> <<>>, edges |-> <<>>]
Raised == RaisedAs("JSONDecodeError")
Output(sentences, items, edges) ==
    [kind |-> "output", failure |-> "none", error |-> "none",
     sentences |-> sentences, items |-> items, edges |-> edges]
\* the slot of a task that has not finished, and the return value not yet set
Pending ==
    [kind |-> "pending", failure |-> "none", error |-> "none",
     sentences |-> <<>>, items |-> <<>>, edges |-> <<>>]

\* the locals of extract_items_batched
BatchedCall(p, batches, batch_results, i, merged, successful_batches, failed_batches, sentence_offset, single_calls, result) ==
    [pc |-> p, batches |-> batches, batch_results |-> batch_results, i |-> i,
     merged |-> merged, successful_batches |-> successful_batches,
     failed_batches |-> failed_batches, sentence_offset |-> sentence_offset,
     single_calls |-> single_calls, result |-> result]

NoMerge == [sentences |-> <<>>, items |-> <<>>, edges |-> <<>>]
NoBatchedCall == BatchedCall("none", <<>>, <<>>, 0, NoMerge, 0, 0, 0, 0, Pending)

(***************************************************************************)
(* Bounds and vocabulary                                                   *)
(***************************************************************************)

\* most candidates of one extraction
MaxCands == 2

Ab   == <<"A", "b">>
ab   == <<"a", "b">>
cd   == <<"c", "d">>
zz   == <<"z", "z">>
b_c  == <<"b", " ", "c">>
Empty == <<>>

\* the source text "Ab cd" and the sentences the generator reports for it
TextAbCd  == <<"A", "b", " ", "c", "d">>
SentAbCd  == << [idx |-> 0, text |-> Ab], [idx |-> 1, text |-> cd] >>

\* forms long enough for a similarity ratio of exactly 17/20:
\* ratio(FormX20, FormR20) = 34/40, ratio(FormX16, FormR17) = 28/33
Prefix(n) == SubSeq(<<"a", "b", "c", "d", "e", "f", "g", "h", "i", "j", "k",
                      "l", "m", "n", "o", "p", "q">>, 1, n)
FormX20 == Prefix(17) \o <<"x", "y", "z">>
FormR20 == Prefix(17) \o <<"r", "s", "t">>
FormQ20 == Prefix(17) \o <<"u", "v", "w">>
FormX16 == Prefix(14) \o <<"x", "y">>
FormR17 == Prefix(14) \o <<"r", "s", "t">>

Evidence(idx, sentence) ==
    [sentence_idx |-> idx, sentence |-> sentence,
     left_context |-> Empty, right_context |-> Empty]

\* the fields ExtractionItem declares
ItemFields ==
    {"type", "surface_form", "canonical", "english_gloss", "pos_hint", "meta",
     "why_worth_learning", "evidence"}

\* item.<name> on an ExtractionItem returns a value; for a name that is no
\* field of the pydantic model the read raises AttributeError
HasField(name) == name \in ItemFields

\* an ExtractionItem (the fields the pipeline decides on)
Candidate(type, surface, canonical, idx, sentence) ==
    [type |-> type, surface_form |-> surface, canonical |-> canonical,
     evidence |-> Evidence(idx, sentence)]

\* the candidates a direct call of verify_and_canonicalize is given
VerifyCandidates ==
    { Candidate("word", Ab, ab, 0, Ab),        \* in its sentence
      Candidate("word", cd, cd, 0, Ab),        \* in the text, not in its sentence
      Candidate("word", zz, zz, 0, Ab),        \* nowhere
      Candidate("word", Ab, ab, 2, Ab),        \* index too large
      Candidate("word", Ab, ab, -1, cd),       \* negative index, in range for Python
      Candidate("word", zz, zz, -3, Ab),       \* negative index, out of range for Python
      Candidate("chunk", b_c, b_c, 1, cd),     \* a chunk
      Candidate("word", Empty, ab, 0, Ab),     \* blank surface form
      Candidate("pattern", Ab, ab, 0, Ab) }    \* a pattern

RECURSIVE SeqsUpTo(_, _)
\* the sequences over S of length at most n
SeqsUpTo(S, n) ==
    IF n = 0 THEN {<<>>}
    ELSE LET shorter == SeqsUpTo(S, n - 1)
         IN  shorter \cup {Append(q, x) : q \in shorter, x \in S}

\* a row of the items table
ItemRow(id, type, canonical_form) ==
    [id |-> id, type |-> type, canonical_form |-> canonical_form]

\* items tables a direct call may find: each is reachable by ingestion
VerifyDbs ==
    { <<>>,
      << ItemRow(1, "word", ab) >>,
      << ItemRow(1, "word", FormR20), ItemRow(2, "word", FormR17) >> }

MapOf(keys, f) == LemmaDoc(DictDoc(keys, f))

\* outcomes of the generation call of batch_compute_canonical
BatchResponses ==
    { LemmaError,
      MapOf({Ab}, [k \in {Ab} |-> JStr(<<"a">>)]),
      MapOf({Ab, cd}, [k \in {Ab, cd} |-> IF k = Ab THEN JStr(Empty) ELSE JStr(<<" ">>)]),
      MapOf({Ab, cd}, [k \in {Ab, cd} |-> IF k = Ab THEN JFalsy ELSE JTruthy]),
      MapOf({Ab, cd}, [k \in {Ab, cd} |-> IF k = Ab THEN JStr(FormX20) ELSE JStr(FormX16)]),
      MapOf({Ab, b_c}, [k \in {Ab, b_c} |-> IF k = Ab THEN JStr(<<"A", "B">>) ELSE JStr(<<"x">>)]),
      LemmaDoc(ListDoc({Ab})),
      LemmaDoc(ScalarDoc) }

\* outcomes of the batch generation call during ingestion
IngestResponses ==
    { LemmaError,
      MapOf({Ab}, [k \in {Ab} |-> JStr(FormX20)]),
      MapOf({Ab}, [k \in {Ab} |-> JFalsy]) }

LemmaOf(v) == LemmaDoc(DictDoc({LemmaKey}, [k \in {LemmaKey} |-> v]))

\* outcomes of the generation call of _llm_lemmatize
LemmaResponses ==
    { LemmaError,
      LemmaDoc(EmptyDoc),
      LemmaOf(JStr(<<"a", " ">>)),
      LemmaOf(JStr(<<" ">>)),
      LemmaOf(JStr(<<"a", " ", "b">>)),
      LemmaOf(JTruthy),
      LemmaDoc(ListDoc({})) }

Configs ==
    [batch_canonicalization : BOOLEAN, use_llm : BOOLEAN,
     enable_deduplication : BOOLEAN]

\* the two-character name of filler row k
Digits == <<"0", "1", "2", "3", "4", "5", "6", "7", "8", "9">>
Filler(k) == << Digits[(k \div 10) + 1], Digits[(k % 10) + 1] >>

\* an items table whose rows share no (canonical_form, type): two words in the
\* window at a ratio of 34/40 to FormX20, and a more recent pattern at the same
\* ratio
RecencyDb ==
    << ItemRow(1, "word", FormR20), ItemRow(2, "word", FormQ20),
       ItemRow(3, "pattern", FormR20) >>

\* an items table with a word older than the 100 most recent words (row 1) and
\* a pattern that 100 more recent rows of another type follow (row 2)
OutsideDb ==
    [k \in 1..(FuzzyWindow + 2) |->
        IF k = 1 THEN ItemRow(1, "word", FormR20)
        ELSE IF k = 2 THEN ItemRow(2, "pattern", FormR20)
        ELSE ItemRow(k, "word", Filler(k - 3))]

\* an items table whose oldest row is FormX20 itself, older than the window,
\* and whose most recent row is at a ratio of 34/40 to it
ExactDb ==
    [k \in 1..(FuzzyWindow + 2) |->
        IF k = 1 THEN ItemRow(1, "word", FormX20)
        ELSE IF k = FuzzyWindow + 2 THEN ItemRow(k, "word", FormR20)
        ELSE ItemRow(k, "word", Filler(k - 2))]

\* the settings and items tables a direct call starts from: every setting
\* over the small tables, the larger tables with deduplication on, and a
\* table with the word "a", which a lemma of _llm_lemmatize matches
VerifyStarts ==
    (Configs \X VerifyDbs)
      \cup ({[batch_canonicalization |-> TRUE, use_llm |-> FALSE,
              enable_deduplication |-> TRUE]}
            \X {RecencyDb, OutsideDb, ExactDb})
      \cup ({[batch_canonicalization |-> FALSE, use_llm |-> TRUE,
              enable_deduplication |-> TRUE]}
            \X {<< ItemRow(1, "word", <<"a">>) >>})


(***************************************************************************)
(* VerificationService.verify_and_canonicalize                             *)
(***************************************************************************)

NoExisting == 0

\* a VerifiedExtractionItem
VerifiedItem(item, canonical_form, existing_item_id) ==
    [type |-> item.type, surface_form |-> item.surface_form,
     canonical_form |-> canonical_form, evidence |-> item.evidence,
     existing_item_id |-> existing_item_id]

Outcome(kind, dedup, canonical_form, existing_item_id) ==
    [kind |-> kind, dedup |-> dedup, canonical_form |-> canonical_form,
     existing_item_id |-> existing_item_id]

SentenceTexts(e) == [k \in 1..Len(e.sentences) |-> e.sentences[k].text]

\* step 1 of the loop body
IsVerified(text, e, item) ==
    VerifySurfaceForm(text, SentenceTexts(e), item.surface_form,
                      item.evidence.sentence_idx, item.evidence.left_context,
                      item.evidence.right_context)

\* the canonical form after step 3: the matched item's on a match
CanonAfterDedup(items_table, found, c) ==
    IF found.kind = "item" THEN JStr(items_table[found.id].canonical_form) ELSE c

\* mutant of Validate: the test of the surface form is left out
ValidateNoSurfaceCheck(item, canon, hit, id) ==
    IF canon.t = "falsy" THEN Outcome("invalid", hit, Empty, NoExisting)
    ELSE IF canon.t = "truthy" THEN Outcome("raise", hit, Empty, NoExisting)
    ELSE IF IsBlank(canon.s) THEN Outcome("invalid", hit, canon.s, NoExisting)
    ELSE IF ~HasField("pattern_meta")
         THEN Outcome("raise", hit, canon.s, NoExisting)
    ELSE Outcome("verified", hit, canon.s, IF hit THEN id ELSE NoExisting)

\* steps 4 and 4b of the loop body and the construction of the verified item
\* (lines 421-448).  `canonical_form.strip()` raises on a truthy value that is
\* no string.  A candidate that passes both tests of step 4 has
\* item.pattern_meta read: at line 430 if it is a pattern, at line 444 in any
\* case; ExtractionItem declares no such field, so the read raises
\* AttributeError and the item is never constructed.
Validate(item, canon, hit, id) ==
    IF canon.t = "falsy" THEN Outcome("invalid", hit, Empty, NoExisting)
    ELSE IF canon.t = "truthy" THEN Outcome("raise", hit, Empty, NoExisting)
    ELSE IF IsBlank(canon.s) THEN Outcome("invalid", hit, canon.s, NoExisting)
    ELSE IF IsBlank(item.surface_form)
         THEN Outcome("invalid", hit, canon.s, NoExisting)
    ELSE IF ~HasField("pattern_meta")
         THEN Outcome("raise", hit, canon.s, NoExisting)
    ELSE Outcome("verified", hit, canon.s, IF hit THEN id ELSE NoExisting)

\* steps 3 to 4b of the loop body, for the result `found` of the lookup
AfterLookup(items_table, item, c, found) ==
    IF found.kind = "raise" THEN Outcome("raise", FALSE, Empty, NoExisting)
    ELSE Validate(item, CanonAfterDedup(items_table, found, c),
                  found.kind = "item", found.id)

\* steps 3 to 4b of the loop body, for the value `c` step 2 bound to
\* canonical_form
AfterCanonical(items_table, dedup_on, item, c) ==
    AfterLookup(items_table, item, c,
                IF dedup_on THEN FindSimilarItems(items_table, c, item.type)
                ELSE [kind |-> "none", id |-> NoItem])

\* steps 2 to 4b of the loop body, for the outcome `r` of step 2
AfterResolve(items_table, dedup_on, item, r) ==
    IF r.kind = "raise" THEN Outcome("raise", FALSE, Empty, NoExisting)
    ELSE AfterCanonical(items_table, dedup_on, item, r.v)

\* the loop body for the result `v` of step 1
AfterVerify(cmap, settings, items_table, item, resp, v) ==
    IF v = "raise" THEN Outcome("raise", FALSE, Empty, NoExisting)
    ELSE IF v = "false" THEN Outcome("hallucinated", FALSE, Empty, NoExisting)
    ELSE AfterResolve(items_table, settings.enable_deduplication, item,
                      ResolveCanonical(cmap, item, settings.use_llm, resp))

\* one pass of the loop body for `item`; `resp` is what the generation call of
\* step 2 does when step 2 makes one
ProcessCandidate(text, e, cmap, settings, items_table, item, resp) ==
    AfterVerify(cmap, settings, items_table, item, resp, IsVerified(text, e, item))

ZeroStats(n) ==
    [total |-> n, verified |-> 0, hallucinated |-> 0, deduplicated |-> 0,
     invalid |-> 0]

\* mutant of Bump: a candidate dropped as invalid is not counted
BumpButInvalid(stats, out) ==
    [stats EXCEPT
        !.verified     = @ + (IF out.kind = "verified" THEN 1 ELSE 0),
        !.hallucinated = @ + (IF out.kind = "hallucinated" THEN 1 ELSE 0),
        !.deduplicated = @ + (IF out.dedup THEN 1 ELSE 0)]

\* lines 394, 418, 422, 426, 450: the counters one pass of the loop adds to
Bump(stats, out) ==
    [stats EXCEPT
        !.verified     = @ + (IF out.kind = "verified" THEN 1 ELSE 0),
        !.hallucinated = @ + (IF out.kind = "hallucinated" THEN 1 ELSE 0),
        !.invalid      = @ + (IF out.kind = "invalid" THEN 1 ELSE 0),
        !.deduplicated = @ + (IF out.dedup THEN 1 ELSE 0)]

\* lines 363-382: the statistics are set up and, with batch canonicalization
\* on, the batch generation call is made
BatchCanonicalize ==
    /\ pc = "canon"
    /\ \E resp \in (IF cfg.batch_canonicalization
                       /\ \E k \in 1..Len(extraction.items) :
                              extraction.items[k].type = "word"
                    THEN (IF mode = "direct" THEN BatchResponses ELSE IngestResponses)
                    ELSE {LemmaError}) :
          canonical_map' = IF cfg.batch_canonicalization
                           THEN BatchComputeCanonical(extraction.items, resp)
                           ELSE EmptyDoc
    /\ pos' = 0
    /\ verified_items' = <<>>
    /\ verification_stats' = ZeroStats(Len(extraction.items))
    /\ pc' = "verify"
    /\ UNCHANGED <<cfg, db, edges_table, encounters, mode, source_text, extraction,
                   storeVars, history, batched>>

\* the effect of one pass of the loop with outcome `out`: a raise ends the
\* call, anything else is counted and a verified item is appended
ApplyOutcome(item, out) ==
    IF out.kind = "raise"
    THEN /\ pc' = "raised"
         /\ UNCHANGED <<pos, verified_items, verification_stats>>
    ELSE /\ pc' = "verify"
         /\ pos' = pos + 1
         /\ verification_stats' = Bump(verification_stats, out)
         /\ verified_items' =
               IF out.kind = "verified"
               THEN Append(verified_items,
                           VerifiedItem(item, out.canonical_form,
                                        out.existing_item_id))
               ELSE verified_items

\* the outcomes of the generation call step 2 may make for `item`
StepResponses(item) ==
    IF IsVerified(source_text, extraction, item) = "true"
       /\ NeedsLemmaCall(canonical_map, item, cfg.use_llm)
    THEN LemmaResponses ELSE {LemmaError}

\* lines 384-451: one pass of the loop
VerifyStep ==
    /\ pc = "verify"
    /\ pos < Len(extraction.items)
    /\ \E resp \in StepResponses(extraction.items[pos + 1]) :
          ApplyOutcome(extraction.items[pos + 1],
                       ProcessCandidate(source_text, extraction, canonical_map,
                                        cfg, db, extraction.items[pos + 1], resp))
    /\ UNCHANGED <<cfg, db, edges_table, encounters, mode, source_text, extraction,
                   canonical_map, storeVars, history, batched>>

\* lines 453-458: the call returns; in process_text the locals of the store
\* loop are set up next
VerifyReturn ==
    /\ pc = "verify"
    /\ pos = Len(extraction.items)
    /\ IF mode = "direct"
       THEN pc' = "returned" /\ UNCHANGED <<item_id_map, stored_items>>
       ELSE \* ingest_service lines 77-78
            pc' = "store" /\ item_id_map' = <<>> /\ stored_items' = <<>>
    /\ UNCHANGED <<cfg, db, edges_table, encounters, mode, verifyVars,
                   stored_edges, edge_pos, history, batched>>

(***************************************************************************)
(* SpecVerify: one call of verify_and_canonicalize, on any extraction       *)
(***************************************************************************)
InitVerify ==
    /\ \E start \in VerifyStarts : cfg = start[1] /\ db = start[2]
    /\ edges_table = <<>>
    /\ encounters = <<>>
    /\ pc = "canon"
    /\ mode = "direct"
    /\ source_text = TextAbCd
    /\ extraction \in [sentences : {SentAbCd},
                       items : SeqsUpTo(VerifyCandidates, MaxCands),
                       edges : {<<>>}]
    /\ canonical_map = EmptyDoc
    /\ pos = 0
    /\ verified_items = <<>>
    /\ verification_stats = ZeroStats(0)
    /\ item_id_map = <<>>
    /\ stored_items = <<>>
    /\ stored_edges = <<>>
    /\ edge_pos = 0
    /\ history = <<>>
    /\ batched = NoBatchedCall

NextVerify == BatchCanonicalize \/ VerifyStep \/ VerifyReturn

SpecVerify == InitVerify /\ [][NextVerify]_vars

(***************************************************************************)
(* SpecBatch: one call of extract_items_batched                            *)
(***************************************************************************)

\* most sentences of a text handed to extract_items_batched
MaxSentences == 6

\* the text of n sentences "a. a. ... a."
RECURSIVE SentencesText(_)
SentencesText(n) ==
    IF n = 1 THEN <<"a", ".">>
    ELSE <<"a", ".", " ">> \o SentencesText(n - 1)

BatchTexts == {SentencesText(n) : n \in 1..MaxSentences} \cup {TextAbCd}

\* an ExtractionEdge; weight is "none" for None
Edge(src, dst, type, weight) ==
    [src_canonical |-> src, dst_canonical |-> dst, type |-> type, weight |-> weight]
AnEdge == Edge(ab, cd, "collocates", "0.5")

\* what one extract_items call may give: an error, an output with neither
\* items nor sentences, and outputs with sentences and items
SingleResults ==
    { RaisedAs(failure) :
        failure \in {"OllamaConnectionError", "OllamaTimeoutError", "JSONDecodeError",
                     "ValidationError", "Exception"} }
    \cup
    { Output(<<>>, <<>>, <<>>),
      Output(<< [idx |-> 0, text |-> Ab] >>,
             << Candidate("word", Ab, ab, 0, Ab) >>, <<>>),
      Output(SentAbCd, << Candidate("word", cd, cd, 1, cd) >>, << AnEdge >>),
      Output(<<>>, << Candidate("word", Ab, ab, 0, Ab) >>, <<>>),
      Output(<< [idx |-> 1, text |-> cd] >>,
             << Candidate("word", cd, cd, 1, cd) >>, <<>>),
      Output(<<>>, <<>>, << AnEdge >>) }

\* line 367: one batch, the text goes to a single extract_items call
BatchSingle ==
    /\ batched.pc = "start"
    /\ Len(SplitIntoSentenceBatches(source_text, BatchSizeSentences)) = 1
    /\ \E r \in SingleResults :
          batched' = [batched EXCEPT
             !.batches = SplitIntoSentenceBatches(source_text, BatchSizeSentences),
             !.single_calls = @ + 1,
             !.result = r,
             !.pc = IF r.kind = "raise" THEN "raised" ELSE "returned"]
    /\ UNCHANGED <<cfg, db, edges_table, encounters, pc, mode, verifyVars,
                   storeVars, history>>

\* lines 371-375: one task per batch is handed to asyncio.gather
BatchGather ==
    /\ batched.pc = "start"
    /\ Len(SplitIntoSentenceBatches(source_text, BatchSizeSentences)) > 1
    /\ batched' = [batched EXCEPT
          !.batches = SplitIntoSentenceBatches(source_text, BatchSizeSentences),
          !.batch_results =
             [k \in 1..Len(SplitIntoSentenceBatches(source_text, BatchSizeSentences))
                |-> Pending],
          !.pc = "gather"]
    /\ UNCHANGED <<cfg, db, edges_table, encounters, pc, mode, verifyVars,
                   storeVars, history>>

\* the tasks that have finished (history logs them in the order in which they
\* finished, each with what it returned or raised)
Finished == {history[n].task : n \in 1..Len(history)}

\* the result of the task that finishes next goes to the next free slot
CompletionSlot(k, finished) == finished + 1

\* line 370: asyncio.gather returns the results in the order of the tasks it
\* was given, whenever each of them finishes
GatherSlot(k, finished) == k

\* the task of batch k finishes: return_exceptions=True keeps what it raised
\* in its slot
BatchSettles(k) ==
    /\ batched.pc = "gather"
    /\ k \notin Finished
    /\ \E r \in SingleResults :
          /\ batched' = [batched EXCEPT
                !.batch_results[GatherSlot(k, Len(history))] = r]
          /\ history' = Append(history, [task |-> k, result |-> r])
    /\ UNCHANGED <<cfg, db, edges_table, encounters, pc, mode, verifyVars,
                   storeVars>>

\* mutant of GatherReturns: as without return_exceptions, the first exception
\* of a task ends the wait
FirstException(batch_results) ==
    \/ \E k \in 1..Len(batch_results) : batch_results[k].kind = "raise"
    \/ \A k \in 1..Len(batch_results) : batch_results[k] # Pending

\* line 370: with return_exceptions=True the await of asyncio.gather ends when
\* every task has returned or raised
GatherReturns(batch_results) ==
    \A k \in 1..Len(batch_results) : batch_results[k] # Pending

\* lines 377-386: gather returns once every task has finished
BatchGathered ==
    /\ batched.pc = "gather"
    /\ GatherReturns(batched.batch_results)
    /\ batched' = [batched EXCEPT
          !.pc = "merge", !.i = 0, !.merged = NoMerge,
          !.successful_batches = 0, !.failed_batches = 0, !.sentence_offset = 0]
    /\ UNCHANGED <<cfg, db, edges_table, encounters, pc, mode, verifyVars,
                   storeVars, history>>

\* lines 393-396: sentence.idx += sentence_offset
ShiftSentences(sentences, sentence_offset) ==
    [k \in 1..Len(sentences) |->
        [sentences[k] EXCEPT !.idx = @ + sentence_offset]]

\* lines 379-390: the result counts as failed
BatchFailed(result) ==
    \/ result.kind = "raise"
    \/ result.items = <<>> /\ result.sentences = <<>>

\* lines 378-404: one pass of the merge loop
BatchMergeStep ==
    /\ batched.pc = "merge"
    /\ batched.i < Len(batched.batch_results)
    /\ batched' =
          IF BatchFailed(batched.batch_results[batched.i + 1])
          THEN [batched EXCEPT !.i = @ + 1, !.failed_batches = @ + 1]
          ELSE [batched EXCEPT
                  !.i = @ + 1,
                  !.successful_batches = @ + 1,
                  !.merged.sentences =
                     @ \o ShiftSentences(batched.batch_results[batched.i + 1].sentences,
                                         batched.sentence_offset),
                  !.sentence_offset =
                     @ + Len(batched.batch_results[batched.i + 1].sentences),
                  !.merged.items = @ \o batched.batch_results[batched.i + 1].items,
                  !.merged.edges = @ \o batched.batch_results[batched.i + 1].edges]
    /\ UNCHANGED <<cfg, db, edges_table, encounters, pc, mode, verifyVars,
                   storeVars, history>>

\* line 408: successful_batches < len(batches) / 2
TooManyFailed(successful_batches, n) == 2 * successful_batches < n

\* lines 408-416: after the loop, either the fallback call is started or the
\* merge is returned
BatchDecide ==
    /\ batched.pc = "merge"
    /\ batched.i = Len(batched.batch_results)
    /\ batched' =
          IF TooManyFailed(batched.successful_batches, Len(batched.batches))
          THEN [batched EXCEPT !.pc = "fallback"]
          ELSE [batched EXCEPT
                  !.pc = "returned",
                  !.result = Output(batched.merged.sentences, batched.merged.items,
                                    batched.merged.edges)]
    /\ UNCHANGED <<cfg, db, edges_table, encounters, pc, mode, verifyVars,
                   storeVars, history>>

\* line 410: the single extract_items call over the full text finishes
BatchFallback ==
    /\ batched.pc = "fallback"
    /\ \E r \in SingleResults :
          batched' = [batched EXCEPT
             !.single_calls = @ + 1,
             !.result = r,
             !.pc = IF r.kind = "raise" THEN "raised" ELSE "returned"]
    /\ UNCHANGED <<cfg, db, edges_table, encounters, pc, mode, verifyVars,
                   storeVars, history>>

InitBatch ==
    /\ cfg \in Configs
    /\ db = <<>>
    /\ edges_table = <<>>
    /\ encounters = <<>>
    /\ pc = "idle"
    /\ mode = "direct"
    /\ source_text \in BatchTexts
    /\ extraction = [sentences |-> <<>>, items |-> <<>>, edges |-> <<>>]
    /\ canonical_map = EmptyDoc
    /\ pos = 0
    /\ verified_items = <<>>
    /\ verification_stats = ZeroStats(0)
    /\ item_id_map = <<>>
    /\ stored_items = <<>>
    /\ stored_edges = <<>>
    /\ edge_pos = 0
    /\ history = <<>>
    /\ batched = [NoBatchedCall EXCEPT !.pc = "start"]

NextBatch ==
    \/ BatchSingle
    \/ BatchGather
    \/ \E k \in 1..Len(batched.batch_results) : BatchSettles(k)
    \/ BatchGathered
    \/ BatchMergeStep
    \/ BatchDecide
    \/ BatchFallback

SpecBatch == InitBatch /\ [][NextBatch]_vars

(***************************************************************************)
(* GraphStore                                                              *)
(***************************************************************************)

\* the query of upsert_item: the first row with the canonical form and type
FindItem(items_table, canonical_form, item_type) ==
    IF \E k \in 1..Len(items_table) :
          /\ items_table[k].canonical_form = canonical_form
          /\ items_table[k].type = item_type
    THEN MinId({k \in 1..Len(items_table) :
                  /\ items_table[k].canonical_form = canonical_form
                  /\ items_table[k].type = item_type})
    ELSE NoItem

\* upsert_item, the table after it: a row is added only if none exists
\* (metadata and updated_at are not part of the model)
UpsertItemTable(items_table, canonical_form, item_type) ==
    IF FindItem(items_table, canonical_form, item_type) # NoItem
    THEN items_table
    ELSE Append(items_table,
                ItemRow(Len(items_table) + 1, item_type, canonical_form))

\* upsert_item, the id of the row it returns
UpsertItemId(items_table, canonical_form, item_type) ==
    IF FindItem(items_table, canonical_form, item_type) # NoItem
    THEN FindItem(items_table, canonical_form, item_type)
    ELSE Len(items_table) + 1

EdgeRow(source_id, target_id, relation_type, weight) ==
    [source_id |-> source_id, target_id |-> target_id,
     relation_type |-> relation_type, weight |-> weight]

\* the query of upsert_edge
FindEdge(table, source_id, target_id, relation_type) ==
    {k \in 1..Len(table) :
        /\ table[k].source_id = source_id
        /\ table[k].target_id = target_id
        /\ table[k].relation_type = relation_type}

\* the weight of an existing row is replaced by whatever is passed
UpsertEdgeOverwrite(table, source_id, target_id, relation_type, weight) ==
    IF FindEdge(table, source_id, target_id, relation_type) # {}
    THEN [table EXCEPT
            ![MinId(FindEdge(table, source_id, target_id, relation_type))].weight
               = weight]
    ELSE Append(table, EdgeRow(source_id, target_id, relation_type, weight))

\* upsert_edge: the weight of an existing row is replaced if one is given,
\* a row is added if none exists
UpsertEdge(table, source_id, target_id, relation_type, weight) ==
    IF FindEdge(table, source_id, target_id, relation_type) # {}
    THEN IF weight # "none"
         THEN [table EXCEPT
                 ![MinId(FindEdge(table, source_id, target_id, relation_type))].weight
                     = weight]
         ELSE table
    ELSE Append(table, EdgeRow(source_id, target_id, relation_type, weight))

\* create_encounter as process_text calls it
EncounterRow(item_id, context_sentence) ==
    [item_id |-> item_id, mode |-> "extract", correct |-> TRUE,
     context_sentence |-> context_sentence]

(***************************************************************************)
(* extract_service: extract_items                                          *)
(***************************************************************************)

FilterList == { <<"u", "n", "d">>, <<"d", "e", "r">> }
KnownProperNouns == { <<"m", "a", "x">>, <<"j", "a", "n">> }

\* an item validate_and_filter_items keeps (patterns are dealt with apart)
KeptByFilter(item) ==
    /\ ~IsBlank(item.canonical)
    /\ ~IsBlank(item.surface_form)
    /\ Lower(Strip(item.canonical)) \notin FilterList
    /\ Lower(Strip(item.surface_form)) \notin FilterList
    /\ Lower(Strip(item.canonical)) \notin KnownProperNouns
    /\ Lower(Strip(item.surface_form)) \notin KnownProperNouns

\* validate_and_filter_items reads item.pattern_meta for a pattern whose forms
\* are not blank; ExtractionItem has no such field, so the read raises
FilterRaises(items) ==
    \E k \in 1..Len(items) :
       /\ ~HasField("pattern_meta")
       /\ items[k].type = "pattern"
       /\ ~IsBlank(items[k].canonical)
       /\ ~IsBlank(items[k].surface_form)

\* extract_items on what the generator returned: an error of the call, of the
\* schema or of the filter is raised, else the filtered output is returned
ExtractItems(raw) ==
    IF raw.kind = "raise" THEN raw
    ELSE IF FilterRaises(raw.items) THEN RaisedAs("AttributeError")
    ELSE Output(raw.sentences, SelectSeq(raw.items, KeptByFilter), raw.edges)

(***************************************************************************)
(* IngestService.process_text                                              *)
(***************************************************************************)

\* most process_text calls of one behaviour
MaxCalls == 2

\* item_id_map.get(key)
MapGet(map, key) == IF key \in DOMAIN map THEN map[key] ELSE NoItem
\* item_id_map[key] = value
MapPut(map, key, value) ==
    [k \in (DOMAIN map) \cup {key} |-> IF k = key THEN value ELSE map[k]]

\* one entry of the log of process_text calls
CallEntry(status, e, cmap, stats, items_before, items_after, items_extracted, edges_created) ==
    [status |-> status, extraction |-> e, canonical_map |-> cmap,
     verification_stats |-> stats, items_before |-> items_before,
     items_after |-> items_after, items_extracted |-> items_extracted,
     edges_created |-> edges_created]

\* what the generator may return for the text "Ab cd"
IngestExtractions ==
    { Raised,
      Output(SentAbCd,
             << Candidate("word", Ab, ab, 0, Ab), Candidate("word", cd, cd, 1, cd) >>,
             << Edge(Ab, cd, "collocates", "0.5"), Edge(Ab, zz, "collocates", "none") >>),
      Output(SentAbCd,
             << Candidate("word", Ab, ab, 0, Ab), Candidate("word", Ab, ab, 0, Ab) >>,
             << Edge(Ab, Ab, "near_synonym", "none") >>),
      Output(SentAbCd,
             << Candidate("word", zz, zz, 0, Ab), Candidate("word", cd, cd, 1, cd),
                Candidate("word", Empty, cd, 1, cd) >>,
             << Edge(zz, cd, "collocates", "0.9") >>),
      Output(SentAbCd,
             << Candidate("word", zz, zz, 0, Ab), Candidate("word", Empty, cd, 1, cd) >>,
             << Edge(zz, cd, "collocates", "none") >>),
      Output(SentAbCd,
             << Candidate("word", cd, cd, -3, cd) >>, <<>>),
      Output(SentAbCd,
             << Candidate("pattern", Ab, ab, 0, Ab) >>, <<>>),
      Output(SentAbCd,
             << Candidate("word", Ab, ab, 0, Ab), Candidate("chunk", Ab, ab, 0, Ab) >>,
             << Edge(Ab, Ab, "collocates", "none") >>) }

\* lines 57-68: the text is short, extract_items is called; what it raises
\* ends the call
Extract ==
    /\ pc = "idle"
    /\ Len(history) < MaxCalls
    /\ Len(source_text) <= 100
    /\ \E raw \in IngestExtractions :
          IF ExtractItems(raw).kind = "raise"
          THEN /\ history' = Append(history,
                     CallEntry("failed", extraction, EmptyDoc, ZeroStats(0),
                               Len(db), Len(db), 0, 0))
               /\ UNCHANGED <<pc, extraction>>
          ELSE /\ extraction' = [sentences |-> ExtractItems(raw).sentences,
                                 items |-> ExtractItems(raw).items,
                                 edges |-> ExtractItems(raw).edges]
               /\ pc' = "canon"
               /\ history' = Append(history,
                     CallEntry("running", extraction', EmptyDoc, ZeroStats(0),
                               Len(db), Len(db), 0, 0))
    /\ UNCHANGED <<cfg, db, edges_table, encounters, mode, source_text,
                   canonical_map, pos, verified_items, verification_stats,
                   storeVars, batched>>

\* what verify_and_canonicalize raised leaves process_text
CallRaises ==
    /\ pc = "raised"
    /\ mode = "ingest"
    /\ pc' = "idle"
    /\ history' = [history EXCEPT ![Len(history)].status = "raised",
                                  ![Len(history)].canonical_map = canonical_map]
    /\ UNCHANGED <<cfg, db, edges_table, encounters, mode, verifyVars, storeVars,
                   batched>>

\* lines 82-107: the row a verified item is stored under and the table after
\* it: a matched item is fetched by id, any other is upserted
StoredId(table, verified_item) ==
    IF verified_item.existing_item_id # NoExisting
    THEN verified_item.existing_item_id
    ELSE UpsertItemId(table, verified_item.canonical_form, verified_item.type)

StoredTable(table, verified_item) ==
    IF verified_item.existing_item_id # NoExisting THEN table
    ELSE UpsertItemTable(table, verified_item.canonical_form, verified_item.type)

\* the fields VerifiedExtractionItem declares
VerifiedItemFields ==
    {"type", "surface_form", "canonical_form", "english_gloss", "pos_hint",
     "meta", "why_worth_learning", "evidence", "existing_item_id"}

RECURSIVE StoreLoop(_, _)
\* lines 80-125: the store loop over `items`, from the tables and locals `s`.
\* Line 87 reads verified_item.pattern_meta for an unmatched pattern, which
\* raises AttributeError as VerifiedExtractionItem declares no such field.
\* (No call gets here with an item: verified_items is empty when
\* verify_and_canonicalize returns.)
StoreLoop(items, s) ==
    IF items = <<>> \/ s.raised THEN s
    ELSE IF /\ Head(items).existing_item_id = NoExisting
            /\ Head(items).type = "pattern"
            /\ "pattern_meta" \notin VerifiedItemFields
         THEN [s EXCEPT !.raised = TRUE]
    ELSE StoreLoop(Tail(items),
            [db |-> StoredTable(s.db, Head(items)),
             item_id_map |-> MapPut(s.item_id_map, Head(items).canonical_form,
                                    StoredId(s.db, Head(items))),
             stored_items |-> Append(s.stored_items,
                [id |-> StoredId(s.db, Head(items)),
                 canonical_form |->
                    StoredTable(s.db, Head(items))[StoredId(s.db, Head(items))]
                       .canonical_form,
                 surface_form |-> Head(items).surface_form,
                 type |-> StoredTable(s.db, Head(items))[StoredId(s.db, Head(items))]
                             .type,
                 source_sentence |-> Head(items).evidence.sentence]),
             encounters |-> Append(s.encounters,
                EncounterRow(StoredId(s.db, Head(items)),
                             Head(items).evidence.sentence)),
             raised |-> FALSE])

\* lines 80-128: the verified items are stored, then the locals of the edge
\* loop are set up
StoreItems ==
    /\ pc = "store"
    /\ LET s == StoreLoop(verified_items,
                          [db |-> db, item_id_map |-> item_id_map,
                           stored_items |-> stored_items,
                           encounters |-> encounters, raised |-> FALSE])
       IN  /\ db' = s.db
           /\ item_id_map' = s.item_id_map
           /\ stored_items' = s.stored_items
           /\ encounters' = s.encounters
           /\ pc' = IF s.raised THEN "raised" ELSE "edges"
    /\ stored_edges' = <<>>
    /\ edge_pos' = 0
    /\ UNCHANGED <<cfg, edges_table, mode, verifyVars, history, batched>>

\* mutant of BothEndpoints: the endpoints are not tested
NoEndpointTest(source_id, target_id) == TRUE

\* line 135: `if source_id and target_id`
BothEndpoints(source_id, target_id) == source_id # NoItem /\ target_id # NoItem

\* lines 129-146: one pass of the edge loop
StoreEdge ==
    /\ pc = "edges"
    /\ edge_pos < Len(extraction.edges)
    /\ LET extracted_edge == extraction.edges[edge_pos + 1]
           source_id == MapGet(item_id_map, extracted_edge.src_canonical)
           target_id == MapGet(item_id_map, extracted_edge.dst_canonical)
       IN  IF BothEndpoints(source_id, target_id)
           THEN /\ edges_table' = UpsertEdge(edges_table, source_id, target_id,
                                             extracted_edge.type,
                                             extracted_edge.weight)
                /\ stored_edges' = Append(stored_edges,
                      [source |-> extracted_edge.src_canonical,
                       target |-> extracted_edge.dst_canonical,
                       type |-> extracted_edge.type])
           ELSE UNCHANGED <<edges_table, stored_edges>>
    /\ edge_pos' = edge_pos + 1
    /\ UNCHANGED <<cfg, db, encounters, pc, mode, verifyVars, item_id_map,
                   stored_items, history, batched>>

\* lines 149-158: the summary is returned
Return ==
    /\ pc = "edges"
    /\ edge_pos = Len(extraction.edges)
    /\ pc' = "idle"
    /\ history' = [history EXCEPT ![Len(history)] =
          CallEntry("success", extraction, canonical_map, verification_stats,
                    @.items_before, Len(db), Len(stored_items), Len(stored_edges))]
    /\ UNCHANGED <<cfg, db, edges_table, encounters, mode, verifyVars, storeVars,
                   batched>>

\* an items table that fills the fuzzy window: the oldest row is FormR20
WindowDb ==
    [k \in 1..FuzzyWindow |->
        IF k = 1 THEN ItemRow(1, "word", FormR20)
        ELSE ItemRow(k, "word", Filler(k - 1))]

\* the settings and items tables ingestion starts from
IngestStarts ==
    ({c \in Configs : ~c.use_llm} \X { <<>>, << ItemRow(1, "word", Ab) >> })
      \cup {<< [batch_canonicalization |-> TRUE, use_llm |-> FALSE,
               enable_deduplication |-> TRUE], WindowDb >>}

Init ==
    /\ \E start \in IngestStarts : cfg = start[1] /\ db = start[2]
    /\ edges_table = <<>>
    /\ encounters = <<>>
    /\ pc = "idle"
    /\ mode = "ingest"
    /\ source_text = TextAbCd
    /\ extraction = [sentences |-> <<>>, items |-> <<>>, edges |-> <<>>]
    /\ canonical_map = EmptyDoc
    /\ pos = 0
    /\ verified_items = <<>>
    /\ verification_stats = ZeroStats(0)
    /\ item_id_map = <<>>
    /\ stored_items = <<>>
    /\ stored_edges = <<>>
    /\ edge_pos = 0
    /\ history = <<>>
    /\ batched = NoBatchedCall

Next ==
    \/ Extract
    \/ BatchCanonicalize
    \/ VerifyStep
    \/ VerifyReturn
    \/ CallRaises
    \/ StoreItems
    \/ StoreEdge
    \/ Return

Spec == Init /\ [][Next]_vars

(***************************************************************************)
(* SpecGraph: sequential calls of GraphStore.upsert_edge                   *)
(***************************************************************************)
MaxEdgeCalls == 3

\* the arguments of the calls: ids of items, relation types, and weights
\* ("none" for None; 0.0 is a weight)
EdgeIds == {1, 2}
RelationTypes == {"collocates", "near_synonym"}
Weights == {"none", "0.0", "0.5"}

\* one call of upsert_edge; the call is logged with its arguments
UpsertEdgeCall ==
    /\ mode = "graph"
    /\ Len(history) < MaxEdgeCalls
    /\ \E source_id \in EdgeIds, target_id \in EdgeIds,
          relation_type \in RelationTypes, weight \in Weights :
          /\ edges_table' = UpsertEdge(edges_table, source_id, target_id,
                                       relation_type, weight)
          /\ history' = Append(history,
                EdgeRow(source_id, target_id, relation_type, weight))
    /\ UNCHANGED <<cfg, db, encounters, pc, mode, verifyVars, storeVars, batched>>

InitGraph ==
    /\ cfg = [batch_canonicalization |-> TRUE, use_llm |-> FALSE,
              enable_deduplication |-> TRUE]
    /\ db = << ItemRow(1, "word", Ab), ItemRow(2, "word", cd) >>
    /\ edges_table = <<>>
    /\ encounters = <<>>
    /\ pc = "idle"
    /\ mode = "graph"
    /\ source_text = TextAbCd
    /\ extraction = [sentences |-> <<>>, items |-> <<>>, edges |-> <<>>]
    /\ canonical_map = EmptyDoc
    /\ pos = 0
    /\ verified_items = <<>>
    /\ verification_stats = ZeroStats(0)
    /\ item_id_map = <<>>
    /\ stored_items = <<>>
    /\ stored_edges = <<>>
    /\ edge_pos = 0
    /\ history = <<>>
    /\ batched = NoBatchedCall

NextGraph == UpsertEdgeCall

SpecGraph == InitGraph /\ [][NextGraph]_vars

(***************************************************************************)
(* SpecRace: two process_text calls running concurrently on one database.  *)
(* The locals of a call are functions over Calls; a step is one statement  *)
(* that reads or writes the database together with the local statements    *)
(* that follow it.                                                         *)
(***************************************************************************)
Calls == {1, 2}

\* what the generator may return to a racing call for the text "Ab cd"
RaceProposals ==
    { Output(SentAbCd, << Candidate("word", Ab, ab, 0, Ab) >>, <<>>),
      Output(SentAbCd, << Candidate("word", zz, zz, 0, Ab),
                          Candidate("word", Ab, ab, 0, Ab) >>, <<>>),
      Output(SentAbCd, << Candidate("word", cd, cd, 1, cd) >>, <<>>),
      Output(SentAbCd, << Candidate("word", zz, zz, 0, Ab) >>, <<>>) }

\* one entry of the log of database reads and writes of the racing calls:
\* `hit` tells whether a read found a row
RaceEntry(c, op, hit) == [call |-> c, op |-> op, hit |-> hit]

\* lines 57-68 of process_text, for call c
RaceExtract(c) ==
    /\ mode = "race"
    /\ pc[c] = "idle"
    /\ \E raw \in RaceProposals :
          /\ extraction' = [extraction EXCEPT ![c] =
                [sentences |-> ExtractItems(raw).sentences,
                 items |-> ExtractItems(raw).items,
                 edges |-> ExtractItems(raw).edges]]
          /\ pc' = [pc EXCEPT ![c] =
                IF ExtractItems(raw).kind = "raise" THEN "raised" ELSE "canon"]
    /\ UNCHANGED <<cfg, db, edges_table, encounters, mode, source_text,
                   canonical_map, pos, verified_items, verification_stats,
                   storeVars, history, batched>>

\* lines 363-382 of verify_and_canonicalize, for call c (batch
\* canonicalization is off in the race)
RaceCanonicalize(c) ==
    /\ mode = "race"
    /\ pc[c] = "canon"
    /\ canonical_map' = [canonical_map EXCEPT ![c] =
          IF cfg.batch_canonicalization
          THEN BatchComputeCanonical(extraction[c].items, LemmaError)
          ELSE EmptyDoc]
    /\ pos' = [pos EXCEPT ![c] = 0]
    /\ verified_items' = [verified_items EXCEPT ![c] = <<>>]
    /\ verification_stats' = [verification_stats EXCEPT ![c] =
          ZeroStats(Len(extraction[c].items))]
    /\ pc' = [pc EXCEPT ![c] = "verify"]
    /\ UNCHANGED <<cfg, db, edges_table, encounters, mode, source_text, extraction,
                   storeVars, history, batched>>

\* lines 384-451: one pass of the loop of call c, over the items table as it
\* is now; the log tells whether find_similar_items found a row
RaceVerifyStep(c) ==
    /\ mode = "race"
    /\ pc[c] = "verify"
    /\ pos[c] < Len(extraction[c].items)
    /\ LET item == extraction[c].items[pos[c] + 1]
           out == ProcessCandidate(source_text, extraction[c], canonical_map[c],
                                   cfg, db, item, LemmaError)
       IN  /\ IF out.kind = "raise"
              THEN /\ pc' = [pc EXCEPT ![c] = "raised"]
                   /\ UNCHANGED <<pos, verified_items, verification_stats>>
              ELSE /\ pc' = pc
                   /\ pos' = [pos EXCEPT ![c] = @ + 1]
                   /\ verification_stats' = [verification_stats EXCEPT ![c] =
                         Bump(@, out)]
                   /\ verified_items' = [verified_items EXCEPT ![c] =
                         IF out.kind = "verified"
                         THEN Append(@, VerifiedItem(item, out.canonical_form,
                                                     out.existing_item_id))
                         ELSE @]
           /\ history' = Append(history, RaceEntry(c, "lookup", out.dedup))
    /\ UNCHANGED <<cfg, db, edges_table, encounters, mode, source_text, extraction,
                   canonical_map, storeVars, batched>>

\* lines 453-458 and ingest_service lines 77-78, for call c
RaceVerifyReturn(c) ==
    /\ mode = "race"
    /\ pc[c] = "verify"
    /\ pos[c] = Len(extraction[c].items)
    /\ pc' = [pc EXCEPT ![c] = "store"]
    /\ item_id_map' = [item_id_map EXCEPT ![c] = <<>>]
    /\ stored_items' = [stored_items EXCEPT ![c] = <<>>]
    /\ UNCHANGED <<cfg, db, edges_table, encounters, mode, verifyVars,
                   stored_edges, edge_pos, history, batched>>

\* ingest_service lines 109-125: the item call c holds for its verified item
\* `v` is the row `id`
RaceRecord(c, v, id) ==
    /\ item_id_map' = [item_id_map EXCEPT ![c] = MapPut(@, v.canonical_form, id)]
    /\ stored_items' = [stored_items EXCEPT ![c] =
          Append(@, [id |-> id, canonical_form |-> db'[id].canonical_form,
                     surface_form |-> v.surface_form, type |-> db'[id].type,
                     source_sentence |-> v.evidence.sentence])]
    /\ encounters' = Append(encounters, EncounterRow(id, v.evidence.sentence))

\* the next statement of the store loop of call c (ingest_service lines
\* 80-128).  upsert_item (graph_store lines 42-66) is two statements: the query,
\* after which the call is in the branch `if existing_item` ("update") or in
\* the else branch ("create"), and the write.  The other call may run between
\* the two.
RaceStoreStep(c) ==
    /\ mode = "race"
    /\ pc[c] \in {"store", "update", "create"}
    /\ IF Len(stored_items[c]) = Len(verified_items[c])
       THEN /\ pc' = [pc EXCEPT ![c] = "edges"]
            /\ UNCHANGED <<db, encounters, item_id_map, stored_items, history>>
       ELSE LET v == verified_items[c][Len(stored_items[c]) + 1]
                found == FindItem(db, v.canonical_form, v.type)
            IN  IF pc[c] = "create"
                THEN /\ db' = Append(db, ItemRow(Len(db) + 1, v.type,
                                                 v.canonical_form))
                     /\ RaceRecord(c, v, Len(db) + 1)
                     /\ pc' = [pc EXCEPT ![c] = "store"]
                     /\ history' = Append(history, RaceEntry(c, "create", FALSE))
                ELSE IF pc[c] = "update"
                THEN /\ db' = db
                     /\ RaceRecord(c, v, found)
                     /\ pc' = [pc EXCEPT ![c] = "store"]
                     /\ history' = Append(history, RaceEntry(c, "update", TRUE))
                ELSE IF v.existing_item_id # NoExisting
                THEN /\ db' = db
                     /\ RaceRecord(c, v, v.existing_item_id)
                     /\ pc' = pc
                     /\ history' = Append(history, RaceEntry(c, "reuse", TRUE))
                ELSE IF v.type = "pattern" /\ "pattern_meta" \notin VerifiedItemFields
                THEN /\ pc' = [pc EXCEPT ![c] = "raised"]
                     /\ UNCHANGED <<db, encounters, item_id_map, stored_items,
                                    history>>
                ELSE /\ pc' = [pc EXCEPT ![c] =
                           IF found # NoItem THEN "update" ELSE "create"]
                     /\ history' = Append(history,
                           RaceEntry(c, "query", found # NoItem))
                     /\ UNCHANGED <<db, encounters, item_id_map, stored_items>>
    /\ UNCHANGED <<cfg, edges_table, mode, verifyVars, stored_edges, edge_pos,
                   batched>>

\* lines 129-158: the proposals hold no edge, the edge loop has nothing to go
\* through and the summary is returned
RaceReturn(c) ==
    /\ mode = "race"
    /\ pc[c] = "edges"
    /\ edge_pos[c] = Len(extraction[c].edges)
    /\ pc' = [pc EXCEPT ![c] = "done"]
    /\ UNCHANGED <<cfg, db, edges_table, encounters, mode, verifyVars, storeVars,
                   history, batched>>

InitRace ==
    /\ cfg \in {s \in Configs : ~s.use_llm /\ ~s.batch_canonicalization}
    /\ db \in { <<>>, << ItemRow(1, "word", Ab) >> }
    /\ edges_table = <<>>
    /\ encounters = <<>>
    /\ pc = [c \in Calls |-> "idle"]
    /\ mode = "race"
    /\ source_text = TextAbCd
    /\ extraction = [c \in Calls |->
                        [sentences |-> <<>>, items |-> <<>>, edges |-> <<>>]]
    /\ canonical_map = [c \in Calls |-> EmptyDoc]
    /\ pos = [c \in Calls |-> 0]
    /\ verified_items = [c \in Calls |-> <<>>]
    /\ verification_stats = [c \in Calls |-> ZeroStats(0)]
    /\ item_id_map = [c \in Calls |-> <<>>]
    /\ stored_items = [c \in Calls |-> <<>>]
    /\ stored_edges = [c \in Calls |-> <<>>]
    /\ edge_pos = [c \in Calls |-> 0]
    /\ history = <<>>
    /\ batched = NoBatchedCall

NextRace ==
    \E c \in Calls :
       \/ RaceExtract(c)
       \/ RaceCanonicalize(c)
       \/ RaceVerifyStep(c)
       \/ RaceVerifyReturn(c)
       \/ RaceStoreStep(c)
       \/ RaceReturn(c)

SpecRace == InitRace /\ [][NextRace]_vars


(***************************************************************************)
(* Properties of verify_and_canonicalize                                   *)
(***************************************************************************)

\* the candidate the loop is about to go through
AtCandidate == pc = "verify" /\ pos < Len(extraction.items)
Current == extraction.items[pos + 1]

\* the sentence indexes that designate a sentence of the extraction
InRange(idx) == idx \in 0..(Len(extraction.sentences) - 1)

\* the surface form occurs neither in the sentence the candidate cites nor
\* anywhere in the source text (case-folded)
OccursNowhere(item) ==
    /\ ~IsSubstr(Lower(item.surface_form), Lower(source_text))
    /\ InRange(item.evidence.sentence_idx) =>
          ~IsSubstr(Lower(item.surface_form),
                    Lower(extraction.sentences[item.evidence.sentence_idx + 1].text))

\* the pass over the current candidate drops it and counts it under `counter`
DroppedAs(counter) ==
    /\ pc' = "verify"
    /\ pos' = pos + 1
    /\ verified_items' = verified_items
    /\ verification_stats' =
          [verification_stats EXCEPT ![counter] = @ + 1]

\* C1. Hallucination rejection: a candidate whose surface form occurs neither
\* in its claimed sentence nor in the source text is dropped by the pass that
\* reaches it, and that pass adds one to `hallucinated` (and to nothing else).
\* Stated for every such candidate; the code raises IndexError instead when
\* the candidate's index is below -len(sentences).
C1_HallucinationRejected ==
    [][(AtCandidate /\ OccursNowhere(Current)) => DroppedAs("hallucinated")]_vars

\* C10. verify_surface_form fails closed: for a candidate whose sentence index
\* is outside 0 .. len(sentences)-1 it returns false and does not raise.
C10_FailsClosed ==
    (AtCandidate /\ ~InRange(Current.evidence.sentence_idx)) =>
       IsVerified(source_text, extraction, Current) = "false"

\* C3. Canonicalization totality: for a candidate with a non-empty surface form
\* that step 2 is reached for, whatever the generation calls did, step 2 binds
\* canonical_form to a non-empty string and does not raise.
C3_CanonicalTotal ==
    (AtCandidate /\ Current.surface_form # <<>>
        /\ IsVerified(source_text, extraction, Current) = "true") =>
       \A resp \in StepResponses(Current) :
          LET r == ResolveCanonical(canonical_map, Current, cfg.use_llm, resp)
          IN  r.kind = "ok" /\ r.v.t = "str" /\ r.v.s # <<>>

\* the similarity ratio 2*matched/total is at least 0.85 = 17/20
RatioAtLeast085(s1, s2) == 20 * SimilarityNum(s1, s2) >= 17 * SimilarityDen(s1, s2)
RatioExactly085(s1, s2) == 20 * SimilarityNum(s1, s2) = 17 * SimilarityDen(s1, s2)

\* the batch map gives the surface form of the candidate a string
MapsToString(item) ==
    /\ canonical_map.kind = "dict"
    /\ item.surface_form \in canonical_map.keys
    /\ canonical_map.val[item.surface_form].t = "str"

\* the candidate reaches step 3 with the string the batch map gives it and the
\* exact query finds no row
ReachesFuzzyStep(item) ==
    /\ cfg.enable_deduplication
    /\ IsVerified(source_text, extraction, item) = "true"
    /\ MapsToString(item)
    /\ ExactMatches(db, canonical_map.val[item.surface_form], item.type) = {}

\* what step 3 finds for such a candidate
Found(item) ==
    FindSimilarItems(db, canonical_map.val[item.surface_form], item.type)

\* C6. Fuzzy threshold boundary: for a candidate that reaches the fuzzy step,
\* find_similar_items returns an item whenever an item of the window has a
\* ratio of at least 0.85 (exactly 0.85 included) to the candidate's form, the
\* item returned has such a ratio, and no item is returned when every ratio in
\* the window is below 0.85.
C6_ThresholdBoundary ==
    \A k \in 1..Len(extraction.items) :
       (pc \in {"verify", "raised", "returned"}
          /\ ReachesFuzzyStep(extraction.items[k])) =>
          LET item == extraction.items[k]
              c == canonical_map.val[item.surface_form].s
          IN  /\ (\E d \in RecentOfType(db, item.type) :
                     RatioAtLeast085(c, db[d].canonical_form))
                 => /\ Found(item).kind = "item"
                    /\ RatioAtLeast085(c, db[Found(item).id].canonical_form)
              /\ (\A d \in RecentOfType(db, item.type) :
                     ~RatioAtLeast085(c, db[d].canonical_form))
                 => Found(item).kind = "none"

\* the pass over a candidate has found a match at a ratio of exactly 0.85
\* (34/40); the next candidate of the list has no match, its best ratio being
\* 28/33
C6_Witness ==
    /\ pc = "raised"
    /\ pos + 2 = Len(extraction.items)
    /\ ReachesFuzzyStep(Current)
    /\ Found(Current).kind = "item"
    /\ RatioExactly085(canonical_map.val[Current.surface_form].s,
                       db[Found(Current).id].canonical_form)
    /\ ReachesFuzzyStep(extraction.items[pos + 2])
    /\ Found(extraction.items[pos + 2]).kind = "none"
    /\ \E d \in RecentOfType(db, extraction.items[pos + 2].type) :
          33 * SimilarityNum(canonical_map.val[extraction.items[pos + 2].surface_form].s,
                             db[d].canonical_form)
             = 28 * SimilarityDen(canonical_map.val[extraction.items[pos + 2].surface_form].s,
                                  db[d].canonical_form)

\* the value step 4 tests is a string: step 2 took it from a JSON object that
\* holds a string for the surface form, or computed it on demand
ResolvesToString(item) ==
    \/ canonical_map.kind = "dict" /\ item.surface_form \notin canonical_map.keys
    \/ canonical_map.kind = "list" /\ item.surface_form \notin canonical_map.keys
    \/ MapsToString(item)

\* the batch map resolves the candidate to a blank string that matches no
\* persisted item
ResolvesToUnmatchedBlank(item) ==
    /\ MapsToString(item)
    /\ IsBlank(canonical_map.val[item.surface_form].s)
    /\ cfg.enable_deduplication =>
          FindSimilarItems(db, canonical_map.val[item.surface_form],
                           item.type).kind = "none"

NonBlankForms ==
    \A k \in 1..Len(verified_items) :
       /\ ~IsBlank(verified_items[k].canonical_form)
       /\ ~IsBlank(verified_items[k].surface_form)

\* the pass drops the candidate and counts it as invalid, as one of the three
\* counters of which each candidate gets one (`deduplicated` is counted apart)
DroppedInvalid ==
    /\ pc' = "verify"
    /\ pos' = pos + 1
    /\ verified_items' = verified_items
    /\ verification_stats'.invalid = verification_stats.invalid + 1
    /\ verification_stats'.hallucinated = verification_stats.hallucinated
    /\ verification_stats'.verified = verification_stats.verified
    /\ verification_stats'.total = verification_stats.total

\* C7. Every verified item has a canonical_form and a surface_form that are
\* not blank after trimming; a candidate that reaches the validation step with
\* a blank surface form, or with a blank canonical form, is dropped and counted
\* under `invalid`.
C7_NonBlank ==
    /\ []NonBlankForms
    /\ [][(AtCandidate
            /\ IsVerified(source_text, extraction, Current) = "true"
            /\ ResolvesToString(Current)
            /\ (IsBlank(Current.surface_form) \/ ResolvesToUnmatchedBlank(Current)))
          => DroppedInvalid]_vars

\* a call has returned after dropping, as invalid, a candidate with a blank
\* surface form and one with a blank canonical form
C7_Witness ==
    /\ pc = "returned"
    /\ verification_stats.invalid = 2
    /\ \E k \in 1..Len(extraction.items) :
          /\ IsBlank(extraction.items[k].surface_form)
          /\ IsVerified(source_text, extraction, extraction.items[k]) = "true"
          /\ ResolvesToString(extraction.items[k])
    /\ \E k \in 1..Len(extraction.items) :
          /\ ~IsBlank(extraction.items[k].surface_form)
          /\ IsVerified(source_text, extraction, extraction.items[k]) = "true"
          /\ ResolvesToUnmatchedBlank(extraction.items[k])

\* what a verified item keeps of the candidate it was made from
Kept(x) == [type |-> x.type, surface_form |-> x.surface_form, evidence |-> x.evidence]

RECURSIVE IsSubsequence(_, _)
\* `small` can be had from `big` by deleting elements
IsSubsequence(small, big) ==
    IF small = <<>> THEN TRUE
    ELSE IF big = <<>> THEN FALSE
    ELSE IF Kept(Head(small)) = Kept(Head(big))
         THEN IsSubsequence(Tail(small), Tail(big))
    ELSE IsSubsequence(small, Tail(big))

\* what step 3 finds for the value `c` of step 2
Lookup(item, c) ==
    IF cfg.enable_deduplication THEN FindSimilarItems(db, c, item.type)
    ELSE [kind |-> "none", id |-> NoItem]

\* the candidate survives the pass over it: its surface form is verified at an
\* index in range, step 2 gives it a string without a generation call, and
\* neither that string (the matched item's on a match) nor its surface form is
\* blank
Survives(item) ==
    /\ InRange(item.evidence.sentence_idx)
    /\ IsVerified(source_text, extraction, item) = "true"
    /\ ~NeedsLemmaCall(canonical_map, item, cfg.use_llm)
    /\ ResolvesToString(item)
    /\ ~IsBlank(item.surface_form)
    /\ LET c == ResolveCanonical(canonical_map, item, cfg.use_llm, LemmaError).v
       IN  ~IsBlank(CanonAfterDedup(db, Lookup(item, c), c).s)

\* the pass over the current candidate appends one verified item made from it
AppendsCurrent ==
    /\ pc' = "verify"
    /\ pos' = pos + 1
    /\ Len(verified_items') = Len(verified_items) + 1
    /\ SubSeq(verified_items', 1, Len(verified_items)) = verified_items
    /\ Kept(verified_items'[Len(verified_items')]) = Kept(Current)

\* C9. The verified items are a subsequence of the candidates gone through so
\* far, in the candidates' order, and the pass over a surviving candidate
\* appends exactly one verified item made from it.
C9_OrderPreserved ==
    /\ [](pc \in {"verify", "returned", "store"} =>
            IsSubsequence(verified_items, SubSeq(extraction.items, 1, pos)))
    /\ [][(AtCandidate /\ Survives(Current)) => AppendsCurrent]_vars

(***************************************************************************)
(* Properties of extract_items_batched                                     *)
(***************************************************************************)

\* the number of batches whose result counts as failed
FailedGroups ==
    Cardinality({k \in 1..Len(batched.batch_results) :
                    BatchFailed(batched.batch_results[k])})

\* C2. Batch fallback: a call over N >= 2 sentence groups of which at least
\* ceil(N/2) failed ends with exactly one non-batched extract_items call made,
\* never with the merge of the groups that succeeded.
C2_FallbackAtHalf ==
    (batched.pc \in {"returned", "raised"}
        /\ Len(batched.batches) >= 2
        /\ 2 * FailedGroups >= Len(batched.batches))
    => batched.single_calls = 1

(***************************************************************************)
(* Properties of process_text                                              *)
(***************************************************************************)

\* no two rows of the items table share (canonical_form, type)
NaturalKeyUnique ==
    Cardinality({<<db[k].canonical_form, db[k].type>> : k \in 1..Len(db)}) = Len(db)

\* the row of the items table that holds the form step 2 gives the candidate
PersistedAs(item) ==
    FindItem(db, ResolveCanonical(canonical_map, item, cfg.use_llm, LemmaError).v.s,
             item.type)

\* C5. Under sequential ingestion no two rows of the items table share
\* (canonical_form, type); and, with deduplication on, the pass over a
\* surviving candidate whose canonical form and type are those of a persisted
\* row appends a verified item that carries that row's id as existing_item_id.
C5_NaturalKey ==
    /\ []NaturalKeyUnique
    /\ [][(mode = "ingest" /\ cfg.enable_deduplication /\ AtCandidate
             /\ Survives(Current) /\ PersistedAs(Current) # NoItem)
          => /\ AppendsCurrent
             /\ verified_items'[Len(verified_items')].existing_item_id
                   = PersistedAs(Current)]_vars

\* the ids under which the verified items of the call in progress are stored
StoredIds == {stored_items[k].id : k \in 1..Len(stored_items)}

\* the canonical forms of the verified items of the call in progress
VerifiedForms ==
    {verified_items[k].canonical_form : k \in 1..Len(verified_items)}

\* C8. Every row the edge loop adds to the edges table or changes has a
\* source_id and a target_id that are ids of verified items of the same call;
\* an edge with an endpoint that is no verified item's canonical_form leaves
\* the edges table and stored_edges as they are and the loop goes on.
C8_EdgeEndpoints ==
    [][(pc = "edges" /\ edge_pos < Len(extraction.edges)) =>
          /\ \A k \in 1..Len(edges_table') :
                (k > Len(edges_table) \/ edges_table'[k] # edges_table[k]) =>
                   /\ edges_table'[k].source_id \in StoredIds
                   /\ edges_table'[k].target_id \in StoredIds
          /\ stored_edges' # stored_edges =>
                \E s \in StoredIds, t \in StoredIds :
                   FindEdge(edges_table', s, t,
                            extraction.edges[edge_pos + 1].type) # {}
          /\ (extraction.edges[edge_pos + 1].src_canonical \notin VerifiedForms
                \/ extraction.edges[edge_pos + 1].dst_canonical \notin VerifiedForms)
             => /\ edges_table' = edges_table
                /\ stored_edges' = stored_edges
                /\ pc' = "edges"
                /\ edge_pos' = edge_pos + 1]_vars

\* a call has returned that was given an edge and dropped it: it raised
\* nothing, counted no edge and left the edges table empty
C8_Witness ==
    /\ pc = "idle"
    /\ Len(history) >= 1
    /\ history[Len(history)].status = "success"
    /\ Len(extraction.edges) = 1
    /\ edge_pos = 1
    /\ history[Len(history)].edges_created = 0
    /\ edges_table = <<>>

\* the generator gave calls k and k+1 the same candidates and lemma mappings
SameInputTwice(k) ==
    /\ history[k].status \in {"success", "raised"}
    /\ history[k + 1].status \in {"success", "raised"}
    /\ history[k].extraction = history[k + 1].extraction
    /\ history[k].canonical_map = history[k + 1].canonical_map

\* both calls completed; call k + 1 created no item and matched as many
\* candidates as call k verified
NoDrift(k) ==
    /\ history[k].status = "success"
    /\ history[k + 1].status = "success"
    /\ history[k + 1].items_after = history[k].items_after
    /\ history[k + 1].verification_stats.deduplicated
          = history[k].verification_stats.verified

\* call k was given a candidate whose surface form is not blank and is
\* verified at an index in range
SomeSurvivor(k) ==
    \E n \in 1..Len(history[k].extraction.items) :
       LET item == history[k].extraction.items[n]
       IN  /\ item.evidence.sentence_idx \in 0..(Len(history[k].extraction.sentences) - 1)
           /\ IsVerified(source_text, history[k].extraction, item) = "true"
           /\ ~IsBlank(item.surface_form)

\* C4. Idempotence: with deduplication on, two calls in a row on the same text
\* to which the generator gives the same candidates and lemma mappings, one of
\* them at least verified, both complete; the second leaves the
\* number of persisted items as the first left it, and its `deduplicated`
\* equals the first call's `verified`.
C4_Idempotent ==
    \A k \in 1..(Len(history) - 1) :
       (cfg.enable_deduplication /\ SameInputTwice(k) /\ SomeSurvivor(k))
          => NoDrift(k)

(***************************************************************************)
(* Deduplication lookup                                                    *)
(***************************************************************************)

\* row d is one of the 100 most recently created rows of its type
InWindow(d) ==
    Cardinality({m \in 1..Len(db) : db[m].type = db[d].type /\ m > d})
       < 100

\* the rows of the candidate's type, inside the window, at a ratio of at least
\* 0.85 to the string c
Qualifying(item, c) ==
    {d \in 1..Len(db) :
        /\ db[d].type = item.type
        /\ InWindow(d)
        /\ RatioAtLeast085(c, db[d].canonical_form)}

\* C11. Fuzzy window: for a candidate that reaches the fuzzy step (no exact
\* match), find_similar_items returns the most recently created item among
\* the 100 most recent items of the candidate's type whose ratio to the
\* candidate's form is at least 0.85, and none when no such item exists; an
\* item of another type or older than the window is never returned.
C11_FuzzyWindow ==
    \A k \in 1..Len(extraction.items) :
       (pc \in {"verify", "raised", "returned"}
          /\ ReachesFuzzyStep(extraction.items[k])) =>
          LET item == extraction.items[k]
              q == Qualifying(item, canonical_map.val[item.surface_form].s)
          IN  /\ q = {} => Found(item).kind = "none"
              /\ q # {} =>
                    /\ Found(item).kind = "item"
                    /\ Found(item).id \in q
                    /\ \A d \in q : d <= Found(item).id

\* the pass over a word has run the lookup over a table that holds a row of
\* its type at a ratio of at least 0.85 but older than the window, and found
\* none; for the pattern that follows it the lookup finds the row of its type,
\* which 100 more recent rows of the other type follow
C11_Witness ==
    /\ pc = "raised"
    /\ pos + 2 = Len(extraction.items)
    /\ Current.type = "word"
    /\ ReachesFuzzyStep(Current)
    /\ Found(Current).kind = "none"
    /\ \E d \in 1..Len(db) :
          /\ db[d].type = "word" /\ ~InWindow(d)
          /\ RatioAtLeast085(canonical_map.val[Current.surface_form].s,
                             db[d].canonical_form)
    /\ extraction.items[pos + 2].type = "pattern"
    /\ ReachesFuzzyStep(extraction.items[pos + 2])
    /\ Found(extraction.items[pos + 2]).kind = "item"
    /\ Cardinality({d \in 1..Len(db) :
                       d > Found(extraction.items[pos + 2]).id
                       /\ db[d].type = "word"}) >= 100

\* the candidate reaches step 3 with the string the batch map gives it
ReachesLookup(item) ==
    /\ cfg.enable_deduplication
    /\ IsVerified(source_text, extraction, item) = "true"
    /\ MapsToString(item)

\* the rows that hold exactly the string c under the candidate's type
SameKeyRows(item, c) ==
    {d \in 1..Len(db) : db[d].type = item.type /\ db[d].canonical_form = c}

\* C12. Exact match first: when a persisted item has exactly the candidate's
\* canonical form and type, find_similar_items returns an item with that form
\* and type, whatever more recent items meet the fuzzy threshold.
C12_ExactFirst ==
    \A k \in 1..Len(extraction.items) :
       (pc \in {"verify", "raised", "returned"}
          /\ ReachesLookup(extraction.items[k])) =>
          LET item == extraction.items[k]
              c == canonical_map.val[item.surface_form].s
          IN  SameKeyRows(item, c) # {} =>
                 /\ Found(item).kind = "item"
                 /\ Found(item).id \in SameKeyRows(item, c)

\* the pass over a candidate has run the lookup over a table that holds the
\* candidate's form exactly in a row older than the window and a more recent
\* row of the same type at a ratio of at least 0.85, and found the exact row
C12_Witness ==
    /\ pc = "raised"
    /\ pos < Len(extraction.items)
    /\ ReachesLookup(Current)
    /\ Found(Current).kind = "item"
    /\ db[Found(Current).id].canonical_form
          = canonical_map.val[Current.surface_form].s
    /\ ~InWindow(Found(Current).id)
    /\ \E d \in Qualifying(Current, canonical_map.val[Current.surface_form].s) :
          d > Found(Current).id

(***************************************************************************)
(* Canonicalization                                                        *)
(***************************************************************************)

\* C13. Patterns and chunks keep their surface form: for every candidate of
\* type pattern or chunk that step 2 is reached for, step 2 binds
\* canonical_form to the surface form unchanged, with and without the batch
\* map, whatever the batched generation call returned.
C13_PatternChunkUnchanged ==
    \A k \in 1..Len(extraction.items) :
       LET item == extraction.items[k]
       IN  (pc \in {"verify", "raised", "returned"}
              /\ item.type \in {"pattern", "chunk"}
              /\ IsVerified(source_text, extraction, item) = "true") =>
              \A resp \in StepResponses(item) :
                 ResolveCanonical(canonical_map, item, cfg.use_llm, resp)
                    = [kind |-> "ok", v |-> JStr(item.surface_form)]

\* the generation call returned an object whose "lemma" is a string that is
\* not blank
HasLemma(resp) ==
    /\ resp.kind = "doc"
    /\ resp.doc.kind = "dict"
    /\ LemmaKey \in resp.doc.keys
    /\ resp.doc.val[LemmaKey].t = "str"
    /\ ~IsBlank(resp.doc.val[LemmaKey].s)

\* s is one whitespace-delimited token
IsOneToken(s) == s # <<>> /\ \A i \in 1..Len(s) : s[i] \notin Whitespace

\* C14. On-demand lemmatization: for a word step 2 lemmatizes on demand, the
\* result is exactly one whitespace-delimited token whenever the generation
\* call succeeded with a non-empty lemma, and the surface form verbatim when
\* the call failed, the document cannot be used or the lemma is empty.
C14_SingleToken ==
    \A k \in 1..Len(extraction.items) :
       LET item == extraction.items[k]
       IN  (pc \in {"verify", "raised", "returned"}
              /\ IsVerified(source_text, extraction, item) = "true"
              /\ NeedsLemmaCall(canonical_map, item, cfg.use_llm)) =>
              \A resp \in StepResponses(item) :
                 IF HasLemma(resp)
                 THEN IsOneToken(LlmLemmatize(item.surface_form, resp))
                 ELSE LlmLemmatize(item.surface_form, resp) = item.surface_form

(***************************************************************************)
(* Properties of the store loop                                            *)
(***************************************************************************)

\* s is a prefix of t
IsPrefix(s, t) == Len(s) <= Len(t) /\ SubSeq(t, 1, Len(s)) = s

\* the store loop has appended one encounter per verified item, in order,
\* under the id the item is stored under and with its evidence sentence
OnePerVerifiedItem ==
    /\ Len(encounters') = Len(encounters) + Len(verified_items)
    /\ Len(stored_items') = Len(verified_items)
    /\ \A k \in 1..Len(verified_items) :
          encounters'[Len(encounters) + k]
             = [item_id |-> stored_items'[k].id, mode |-> "extract",
                correct |-> TRUE,
                context_sentence |-> verified_items[k].evidence.sentence]

\* C15. One encounter per verified item: no step changes or removes an
\* existing encounter; the store loop of a call that completes appends exactly
\* one encounter of mode 'extract' per verified item, under the item's
\* persisted id and with its evidence sentence, as many as items_extracted;
\* and a candidate that passes steps 1 to 4 is such a verified item.
C15_OneEncounterPerItem ==
    /\ [][IsPrefix(encounters, encounters')]_vars
    /\ [][(pc = "store" /\ pc' = "edges") => OnePerVerifiedItem]_vars
    /\ [][(pc = "edges" /\ pc' = "idle") =>
             history'[Len(history')].items_extracted = Len(verified_items)]_vars
    /\ [][(mode = "ingest" /\ AtCandidate /\ Survives(Current))
             => AppendsCurrent]_vars

(***************************************************************************)
(* Properties of upsert_edge                                               *)
(***************************************************************************)

\* no two rows of the edges table share (source_id, target_id, relation_type)
EdgeKeyUnique ==
    \A i, j \in 1..Len(edges_table) :
       (/\ edges_table[i].source_id = edges_table[j].source_id
        /\ edges_table[i].target_id = edges_table[j].target_id
        /\ edges_table[i].relation_type = edges_table[j].relation_type) => i = j

\* row k of the edges table has the key of the call
SameEdgeKey(k, call) ==
    /\ edges_table[k].source_id = call.source_id
    /\ edges_table[k].target_id = call.target_id
    /\ edges_table[k].relation_type = call.relation_type

\* what the call logged last did to a table that already held its key: no row
\* was added, the row of the key took the weight passed unless none was
\* passed, every other row and field is as before
RepeatSighting(call) ==
    (\E k \in 1..Len(edges_table) : SameEdgeKey(k, call)) =>
       /\ Len(edges_table') = Len(edges_table)
       /\ \A k \in 1..Len(edges_table) :
             edges_table'[k] =
                IF SameEdgeKey(k, call) /\ call.weight # "none"
                THEN [edges_table[k] EXCEPT !.weight = call.weight]
                ELSE edges_table[k]

\* C16. Edge uniqueness: after any sequence of sequential upsert_edge calls no
\* two persisted edges share (source_id, target_id, relation_type); a repeat
\* sighting creates no new edge, replaces the weight when a weight is passed
\* and leaves the stored weight as it is when none is passed.
C16_EdgeUnique ==
    /\ []EdgeKeyUnique
    /\ [][RepeatSighting(history'[Len(history')])]_vars

\* three calls with the same key: the first created the edge with weight 0.5,
\* the second passed 0.0, the third passed none; one row, and its weight is 0.0
C16_Witness ==
    /\ mode = "graph"
    /\ Len(history) = 3
    /\ history[1] = EdgeRow(1, 2, "collocates", "0.5")
    /\ history[2] = EdgeRow(1, 2, "collocates", "0.0")
    /\ history[3] = EdgeRow(1, 2, "collocates", "none")
    /\ edges_table = << EdgeRow(1, 2, "collocates", "0.0") >>

\* the (canonical_form, type) keys of the verified items that carry no
\* existing_item_id and that no row of the items table holds
NewKeys ==
    {<<verified_items[k].canonical_form, verified_items[k].type>> :
        k \in {n \in 1..Len(verified_items) :
                 /\ verified_items[n].existing_item_id = NoExisting
                 /\ FindItem(db, verified_items[n].canonical_form,
                             verified_items[n].type) = NoItem}}

\* what the store loop did to the items table: every row it found is as it
\* was, and one row was added per key of NewKeys
StoreWrites ==
    /\ IsPrefix(db, db')
    /\ Len(db') = Len(db) + Cardinality(NewKeys)
    /\ \A k \in (Len(db) + 1)..Len(db') :
          /\ <<db'[k].canonical_form, db'[k].type>> \in NewKeys
          /\ db'[k].id = k

\* C17. Item writes of the store loop: for a verified item that carries
\* existing_item_id the items table is not written; for any other verified
\* item exactly the row keyed by its (canonical_form, type) is created or
\* updated; canonical_form, type and id of an existing row never change; and a
\* candidate that passes steps 1 to 4 is such a verified item.
C17_ItemWrites ==
    /\ [][pc = "store" => StoreWrites]_vars
    /\ [][pc # "store" => db' = db]_vars
    /\ [][(mode = "ingest" /\ AtCandidate /\ Survives(Current)
             /\ (~cfg.enable_deduplication \/ PersistedAs(Current) = NoItem))
          => /\ AppendsCurrent
             /\ verified_items'[Len(verified_items')].existing_item_id
                   = NoExisting]_vars

(***************************************************************************)
(* Properties of the merge of extract_items_batched                        *)
(***************************************************************************)

\* what the task of group k returned or raised
GroupResult(k) ==
    history[CHOOSE n \in 1..Len(history) : history[n].task = k].result

\* the group failed: its call raised, or gave neither items nor sentences
GroupFailed(k) ==
    \/ GroupResult(k).kind = "raise"
    \/ GroupResult(k).items = <<>> /\ GroupResult(k).sentences = <<>>

RECURSIVE ItemsUpTo(_)
\* the items of the successful groups 1..n, in group order
ItemsUpTo(n) ==
    IF n = 0 THEN <<>>
    ELSE ItemsUpTo(n - 1) \o (IF GroupFailed(n) THEN <<>> ELSE GroupResult(n).items)

RECURSIVE EdgesUpTo(_)
\* the edges of the successful groups 1..n, in group order
EdgesUpTo(n) ==
    IF n = 0 THEN <<>>
    ELSE EdgesUpTo(n - 1) \o (IF GroupFailed(n) THEN <<>> ELSE GroupResult(n).edges)

\* extract_items_batched has returned the merge of its groups
MergeReturned ==
    /\ batched.pc = "returned"
    /\ Len(batched.batches) >= 2
    /\ batched.single_calls = 0

\* C18. Merge order: when extract_items_batched returns a merged result, its
\* items and its edges are the items and the edges of the successful groups
\* concatenated in group order, in whatever order the concurrent calls
\* finished; nothing of a failed group appears, nothing of a successful group
\* is lost or repeated.
C18_MergeInGroupOrder ==
    MergeReturned =>
       /\ batched.result.items = ItemsUpTo(Len(batched.batches))
       /\ batched.result.edges = EdgesUpTo(Len(batched.batches))

\* a merge was returned for three groups that finished in the order 3, 1, 2:
\* group 1 gave an item and no edge, group 2 failed with an edge in its
\* output, group 3 gave another item and an edge
C18_Witness ==
    /\ MergeReturned
    /\ Len(batched.batches) = 3
    /\ <<history[1].task, history[2].task, history[3].task>> = <<3, 1, 2>>
    /\ GroupResult(1).items = << Candidate("word", Ab, ab, 0, Ab) >>
    /\ GroupResult(2) = Output(<<>>, <<>>, << AnEdge >>)
    /\ GroupResult(3).items = << Candidate("word", cd, cd, 1, cd) >>
    /\ GroupResult(3).edges = << AnEdge >>
    /\ batched.result.items = << Candidate("word", Ab, ab, 0, Ab),
                                 Candidate("word", cd, cd, 1, cd) >>
    /\ batched.result.edges = << AnEdge >>

\* C19. Sentence renumbering: in the merged result of extract_items_batched
\* each sentence's idx equals its position in the merged sentence list (0, 1,
\* ..., n-1), also when some groups failed and were skipped.
C19_ContinuousIdx ==
    MergeReturned =>
       \A k \in 1..Len(batched.result.sentences) :
          batched.result.sentences[k].idx = k - 1

(***************************************************************************)
(* Properties of concurrent ingestion                                      *)
(***************************************************************************)

\* call c was given `item`, which step 1 verifies and whose forms are not
\* blank
Proposes(c, item) ==
    /\ \E k \in 1..Len(extraction[c].items) : extraction[c].items[k] = item
    /\ IsVerified(source_text, extraction[c], item) = "true"
    /\ ~IsBlank(item.surface_form)

\* no read of the items table by either call found a row: neither
\* find_similar_items nor the query of upsert_item
BothMissed == \A n \in 1..Len(history) : ~history[n].hit

\* both calls have ended
BothEnded == \A c \in Calls : pc[c] \in {"done", "raised"}

\* C20. Race on a canonical form: two concurrent ingestion calls that propose
\* the same canonical form and type and both miss the lookup both create a
\* persisted item, so that two persisted items share (canonical_form, type)
\* once both calls have ended.
C20_RaceDuplicates ==
    (BothEnded /\ BothMissed
       /\ \E item \in {extraction[1].items[k] : k \in 1..Len(extraction[1].items)} :
             \A c \in Calls : Proposes(c, item))
    => ~NaturalKeyUnique

(***************************************************************************)
(* Properties of the identity map of the store loop                        *)
(***************************************************************************)

\* the verified items the candidates of `e` make when each keeps its surface
\* form as canonical form and none is matched
VerifiedFrom(e) ==
    [k \in 1..Len(e.items) |->
        VerifiedItem(e.items[k], e.items[k].surface_form, NoExisting)]

\* the store loop over `vs`, from the items table and with empty locals
StoredFrom(vs) ==
    StoreLoop(vs, [db |-> db, item_id_map |-> <<>>, stored_items |-> <<>>,
                   encounters |-> encounters, raised |-> FALSE])

\* the position of the first item of `vs` with the canonical form of item k
FirstWith(vs, k) ==
    MinId({j \in 1..Len(vs) : vs[j].canonical_form = vs[k].canonical_form})

\* after the store loop `s` over `vs`, every canonical form is mapped to the
\* id the first item that has it is stored under
FirstOccurrenceWins(vs, s) ==
    \A k \in 1..Len(vs) :
       MapGet(s.item_id_map, vs[k].canonical_form)
          = s.stored_items[FirstWith(vs, k)].id

\* C21. First occurrence wins: when several verified items of one call share
\* a canonical_form, the map used for edge resolution gives that canonical
\* form the identity of the first of them in verified order.  Stated of the
\* store loop for the verified items the call's candidates make.
C21_FirstOccurrenceWins ==
    (mode = "ingest" /\ pc \in {"canon", "verify", "raised", "store", "edges"}
       /\ ~StoredFrom(VerifiedFrom(extraction)).raised)
    => FirstOccurrenceWins(VerifiedFrom(extraction),
                           StoredFrom(VerifiedFrom(extraction)))

(***************************************************************************)
(* Properties of the returned verified items and statistics                *)
(***************************************************************************)

\* a verified item that carries existing_item_id has the canonical form and
\* the type of the row with that id
MatchedAgree ==
    \A k \in 1..Len(verified_items) :
       verified_items[k].existing_item_id # NoExisting =>
          /\ verified_items[k].existing_item_id \in 1..Len(db)
          /\ db[verified_items[k].existing_item_id].canonical_form
                = verified_items[k].canonical_form
          /\ db[verified_items[k].existing_item_id].type = verified_items[k].type

\* the verified item the pass appends carries the row `found` and its
\* canonical form, or no row and the form `c` of step 2
CarriesLookup(found, c) ==
    LET v == verified_items'[Len(verified_items')]
    IN  IF found.kind = "item"
        THEN v.existing_item_id = found.id
             /\ v.canonical_form = db[found.id].canonical_form
        ELSE v.existing_item_id = NoExisting /\ v.canonical_form = c.s

\* C22. A verified item returned with existing_item_id has the canonical_form
\* and the type of the persisted item with that id; one returned without it
\* had no exact and no fuzzy match when it was processed.  The pass over a
\* surviving candidate returns it in the one way or the other.
C22_MatchedIdentity ==
    /\ []MatchedAgree
    /\ [][(AtCandidate /\ Survives(Current)) =>
             /\ AppendsCurrent
             /\ CarriesLookup(
                   Lookup(Current, ResolveCanonical(canonical_map, Current,
                                                    cfg.use_llm, LemmaError).v),
                   ResolveCanonical(canonical_map, Current, cfg.use_llm,
                                    LemmaError).v)]_vars

(***************************************************************************)
(* SpecFunctions: one call of verify_surface_form, of _string_similarity   *)
(* or of split_into_sentence_batches, on any input of the bounded sets     *)
(***************************************************************************)

MaxRatioLen == 4
MaxTextLen  == 7

\* the inputs of a verify_surface_form call: the source text, the sentences
\* ("Ab", "cd", or the one made-up sentence "zz Ab", which is not in the text)
\* and an item whose evidence may carry context strings
SurfaceCases ==
    { [text |-> TextAbCd, sentences |-> s,
       item |-> [type |-> "word", surface_form |-> f, canonical |-> f,
                 evidence |-> [sentence_idx |-> i, sentence |-> Empty,
                               left_context |-> l, right_context |-> r]]] :
        s \in {SentAbCd, << [idx |-> 0, text |-> <<"z", "z", " ", "A", "b">>] >>},
        f \in {Ab, cd, zz, <<"b">>},
        i \in {-3, -1, 0, 1, 2},
        l \in {Empty, <<"A">>, <<"c">>, <<" ">>},
        r \in {Empty, <<" ">>, <<"d">>} }

\* the strings _string_similarity is called on
RatioStrings == SeqsUpTo({"a", "b", "A"}, MaxRatioLen)

\* the texts split_into_sentence_batches is called on
SplitTexts ==
    SeqsUpTo({"a", "A", ".", " "}, MaxTextLen)
        \cup { <<"a", "!", " ", "a", "?", " ", "a">>,
               <<"a", "!", "a", "?", "\n", "a", ".">>,
               <<"a", ".", " ", "a", ".", " ", "a", ".", " ", "a", ".", " ", "a">> }

\* TextVerifier(source_text, sentences).verify_surface_form(...)
VerifySurfaceFormCall ==
    /\ mode = "surface" /\ pc = "idle"
    /\ pc' = "done"
    /\ history' = << [op |-> "verify_surface_form", result |->
                        IsVerified(source_text, extraction, extraction.items[1])] >>
    /\ UNCHANGED <<cfg, db, edges_table, encounters, mode, verifyVars, storeVars,
                   batched>>

\* self._string_similarity(candidate_canonical, candidate.canonical_form):
\* the ratio as the pair <<numerator, denominator>>
StringSimilarityCall ==
    /\ mode = "ratio" /\ pc = "idle"
    /\ pc' = "done"
    /\ history' = << [op |-> "_string_similarity", result |->
                        << SimilarityNum(extraction.items[1].canonical,
                                         db[1].canonical_form),
                           SimilarityDen(extraction.items[1].canonical,
                                         db[1].canonical_form) >>] >>
    /\ UNCHANGED <<cfg, db, edges_table, encounters, mode, verifyVars, storeVars,
                   batched>>

\* split_into_sentence_batches(text, settings.batch_size_sentences)
SplitCall ==
    /\ mode = "split" /\ pc = "idle"
    /\ pc' = "done"
    /\ batched' = [batched EXCEPT
          !.batches = SplitIntoSentenceBatches(source_text, BatchSizeSentences)]
    /\ history' = << [op |-> "split_into_sentence_batches", result |-> "list"] >>
    /\ UNCHANGED <<cfg, db, edges_table, encounters, mode, verifyVars, storeVars>>

InitFunctions ==
    /\ cfg = [batch_canonicalization |-> FALSE, use_llm |-> FALSE,
              enable_deduplication |-> TRUE]
    /\ edges_table = <<>>
    /\ encounters = <<>>
    /\ pc = "idle"
    /\ \/ /\ mode = "surface"
          /\ db = <<>>
          /\ \E c \in SurfaceCases :
                /\ source_text = c.text
                /\ extraction = [sentences |-> c.sentences, items |-> << c.item >>,
                                 edges |-> <<>>]
       \/ /\ mode = "ratio"
          /\ source_text = Empty
          /\ \E s1 \in RatioStrings, s2 \in RatioStrings :
                /\ db = << ItemRow(1, "word", s2) >>
                /\ extraction = [sentences |-> <<>>,
                                 items |-> << Candidate("word", s1, s1, 0, Empty) >>,
                                 edges |-> <<>>]
       \/ /\ mode = "split"
          /\ db = <<>>
          /\ source_text \in SplitTexts
          /\ extraction = [sentences |-> <<>>, items |-> <<>>, edges |-> <<>>]
    /\ canonical_map = EmptyDoc
    /\ pos = 0
    /\ verified_items = <<>>
    /\ verification_stats = ZeroStats(0)
    /\ item_id_map = <<>>
    /\ stored_items = <<>>
    /\ stored_edges = <<>>
    /\ edge_pos = 0
    /\ history = <<>>
    /\ batched = NoBatchedCall

NextFunctions == VerifySurfaceFormCall \/ StringSimilarityCall \/ SplitCall

SpecFunctions == InitFunctions /\ [][NextFunctions]_vars

(***************************************************************************)
(* C23                                                                     *)
(***************************************************************************)

\* the item of a verify_surface_form call, what the call returned, and the
\* case-folded sentence that sentences[sentence_idx] reads
SurfaceItem == extraction.items[1]
SurfaceResult == history[1].result
ReadsSentence(idx) == idx \in (-Len(extraction.sentences))..(Len(extraction.sentences) - 1)
ClaimedSentence(idx) ==
    Lower(extraction.sentences[IF idx >= 0 THEN idx + 1
                               ELSE Len(extraction.sentences) + idx + 1].text)
OccursInClaimedOrSource(s, idx) ==
    IsSubstr(Lower(s), ClaimedSentence(idx)) \/ IsSubstr(Lower(s), Lower(source_text))
WithContext(ev) == ev.left_context # Empty \/ ev.right_context # Empty

PastGather ==
    /\ Len(batched.batches) > 1
    /\ batched.pc \in {"merge", "fallback", "returned", "raised"}

\* C24: the merge and the fallback decision of extract_items_batched happen
\* only after the generation call of every group has returned or failed; a
\* group that failed never cancels the call of another group, which stays
\* able to finish; and the merge is handed, for every group, what that group's
\* call returned.
C24_AllGroupsSettle ==
    /\ PastGather =>
          /\ Finished = 1..Len(batched.batches)
          /\ \A k \in 1..Len(batched.batches) :
                batched.batch_results[k] = GroupResult(k)
    /\ batched.pc = "gather" =>
          \A k \in 1..Len(batched.batches) :
              k \notin Finished =>
                 /\ batched.batch_results[k] = Pending
                 /\ ENABLED BatchSettles(k)

\* two groups: the first call to finish raised, the other then returned an
\* item, and the merge that is returned holds that item
C24_Witness ==
    /\ batched.pc = "returned"
    /\ Len(batched.batches) = 2
    /\ Len(history) = 2
    /\ history[1].result.kind = "raise"
    /\ history[2].result.kind = "output"
    /\ history[2].result.items # <<>>
    /\ batched.result.items = history[2].result.items

(***************************************************************************)
(* C25                                                                     *)
(***************************************************************************)

\* the period at p ends a single-letter abbreviation such as "A."
SingleLetterAbbreviation(t, p) ==
    /\ p >= 2
    /\ t[p] = "."
    /\ t[p - 1] \in UpperLetters
    /\ (p = 2 \/ t[p - 2] \in Whitespace \cup Punctuation)

\* whitespace starts at p after sentence-ending punctuation that is no such
\* abbreviation
StatedBoundary(t, p) ==
    /\ p >= 2
    /\ t[p] \in Whitespace
    /\ t[p - 1] \in Punctuation
    /\ ~SingleLetterAbbreviation(t, p - 1)

RECURSIVE StatedSplit(_, _, _)
\* the pieces of t between the stated boundaries
StatedSplit(t, start, p) ==
    IF p > Len(t) THEN << SubSeq(t, start, Len(t)) >>
    ELSE IF StatedBoundary(t, p)
         THEN << SubSeq(t, start, p - 1) >>
                 \o StatedSplit(t, SkipWhitespace(t, p), SkipWhitespace(t, p))
    ELSE StatedSplit(t, start, p + 1)

\* the batches are the sentences, in order, batch_size at a time
InBatchesOf(batches, sentences, batch_size) ==
    /\ Len(batches) = (Len(sentences) + batch_size - 1) \div batch_size
    /\ \A k \in 1..Len(batches) :
          batches[k] = JoinWithSpace(SubSeq(sentences, (k - 1) * batch_size + 1,
                           MinOf({k * batch_size, Len(sentences)})))

BatchesOf(batches, text, sentences, batch_size) ==
    IF sentences = <<>> THEN batches = << text >>
    ELSE InBatchesOf(batches, sentences, batch_size)

\* C25: split_into_sentence_batches splits at ., ! or ? followed by whitespace,
\* but not at a period directly preceded by a single uppercase letter; the
\* sentences are grouped in order into batches of at most batch_size, and a
\* text without sentences yields one batch holding the original text.
C25_SentenceBoundaries ==
    (mode = "split" /\ pc = "done") =>
        BatchesOf(batched.batches, source_text,
                  NonBlankOnly(StatedSplit(Strip(source_text), 1, 1)),
                  BatchSizeSentences)

(***************************************************************************)
(* C26                                                                     *)
(***************************************************************************)

\* extract_items_batched is past the decision that follows the merge loop
Decided ==
    /\ Len(batched.batches) >= 2
    /\ batched.pc \in {"fallback", "returned", "raised"}

\* the exception class the caller is to see for a failure of a single call
SurfacedAs(failure) ==
    CASE failure = "OllamaConnectionError" -> "OllamaConnectionError"
      [] failure = "OllamaTimeoutError"    -> "OllamaTimeoutError"
      [] OTHER                             -> "ExtractionError"

\* C26: when fewer than half of the groups of extract_items_batched failed, the
\* call returns the merged result, with no single call made and nothing
\* raised; when the single non-batched call (made directly or as the fallback)
\* fails, the call raises to its caller what extract_items raised: a
\* connection or timeout error as it is, any other failure as ExtractionError.
C26_FailuresToleratedOrSurfaced ==
    /\ (Decided /\ 2 * FailedGroups < Len(batched.batches)) =>
          /\ batched.pc = "returned"
          /\ batched.single_calls = 0
          /\ batched.result = Output(batched.merged.sentences, batched.merged.items,
                                     batched.merged.edges)
    /\ (batched.single_calls = 1 /\ batched.result.kind = "raise") =>
          /\ batched.pc = "raised"
          /\ batched.result.error = SurfacedAs(batched.result.failure)
    /\ batched.pc = "raised" =>
          batched.single_calls = 1 /\ batched.result.kind = "raise"

\* three groups of which two failed: the fallback call timed out, and the
\* timeout error reached the caller as it was
C26_Witness ==
    /\ batched.pc = "raised"
    /\ Len(batched.batches) = 3
    /\ FailedGroups = 2
    /\ batched.single_calls = 1
    /\ batched.result.failure = "OllamaTimeoutError"
    /\ batched.result.error = "OllamaTimeoutError"

(***************************************************************************)
(* C27                                                                     *)
(***************************************************************************)

\* the two strings of a _string_similarity call and the ratio it returned
RatioLeft  == extraction.items[1].canonical
RatioRight == db[1].canonical_form
RatioNum   == history[1].result[1]
RatioDen   == history[1].result[2]

RatioNormalized ==
    /\ RatioDen > 0
    /\ 0 <= RatioNum /\ RatioNum <= RatioDen
    /\ RatioNum = RatioDen <=> Lower(RatioLeft) = Lower(RatioRight)

\* C27: the similarity ratio of the deduplicator is symmetric and normalized:
\* ratio(a, b) = ratio(b, a), 0 <= ratio(a, b) <= 1, and ratio(a, b) = 1
\* exactly when a and b are identical after case-folding.
C27_RatioSymmetric ==
    (mode = "ratio" /\ pc = "done") =>
        /\ RatioNum * SimilarityDen(RatioRight, RatioLeft)
              = SimilarityNum(RatioRight, RatioLeft) * RatioDen
        /\ RatioNormalized

(***************************************************************************)
(* C28                                                                     *)
(***************************************************************************)

\* the three counters of which each candidate gets one
Counted(stats) == stats.verified + stats.hallucinated + stats.invalid

\* C28: in the statistics verify_and_canonicalize returns, every input
\* candidate is counted in exactly one of verified, hallucinated and invalid:
\* total = verified + hallucinated + invalid, total is the number of input
\* candidates, and verified is the length of the returned item list. While
\* the loop runs, the candidates gone through are the candidates counted.
C28_StatisticsAddUp ==
    /\ pc = "verify" =>
          /\ Counted(verification_stats) = pos
          /\ verification_stats.verified = Len(verified_items)
    /\ pc = "returned" =>
          /\ verification_stats.total = Counted(verification_stats)
          /\ verification_stats.total = Len(extraction.items)
          /\ verification_stats.verified = Len(verified_items)

\* a call that returned after one candidate was dropped as hallucinated and
\* one as invalid
C28_Witness ==
    /\ pc = "returned"
    /\ mode = "direct"
    /\ Len(extraction.items) = 2
    /\ verification_stats.hallucinated = 1
    /\ verification_stats.invalid = 1
    /\ verification_stats.total = 2

(***************************************************************************)
(* C29                                                                     *)
(***************************************************************************)

\* the returned verified items that carry existing_item_id
CarryExisting ==
    Cardinality({k \in 1..Len(verified_items) :
                    verified_items[k].existing_item_id # NoExisting})

RECURSIVE SentencesUpTo(_)
\* the number of sentences of the successful groups 1..n
SentencesUpTo(n) ==
    IF n = 0 THEN 0
    ELSE SentencesUpTo(n - 1)
            + (IF GroupFailed(n) THEN 0 ELSE Len(GroupResult(n).sentences))

\* item j of group g cites a sentence of its own group's list
CitesOwnSentence(g, j) ==
    GroupResult(g).items[j].evidence.sentence_idx
        \in 0..(Len(GroupResult(g).sentences) - 1)

\* where item j of group g is in the merged item list
MergedItem(g, j) == batched.result.items[Len(ItemsUpTo(g - 1)) + j]

\* C30: in the merged result of extract_items_batched every item's
\* evidence.sentence_idx indexes, in the merged sentence list, the sentence it
\* indexed in its own group's sentence list: the index is shifted by the
\* number of sentences merged before the group, as the sentences' idx are.
C30_EvidenceIndexShifted ==
    MergeReturned =>
       \A g \in 1..Len(batched.batches) :
          ~GroupFailed(g) =>
             \A j \in 1..Len(GroupResult(g).items) :
                CitesOwnSentence(g, j) =>
                   MergedItem(g, j).evidence.sentence_idx
                      = SentencesUpTo(g - 1)
                           + GroupResult(g).items[j].evidence.sentence_idx

====
